---- MODULE Spec2Model ----
(***************************************************************************)
(* Cycleslope: the rider settings, the climb derivation engine             *)
(* (enrichSlope and the functions it calls), the settings store, the slope *)
(* loader and the derived catalogue of src/lib/settings.ts.                *)
(*                                                                         *)
(* JavaScript numbers are modelled as decimal fixed-point numbers with     *)
(* five fractional digits: the integer n stands for n / 10^5.  Every       *)
(* product and quotient is rounded down to that grid, as a double is       *)
(* rounded to its own grid after every operation.                          *)
(***************************************************************************)
EXTENDS Integers, Sequences, FiniteSets, TLC

Scale == 10 ^ 5

\* Dec(i, f) is the number i.f, f being five fractional digits.
Dec(i, f) == i * Scale + f

Max(a, b) == IF a >= b THEN a ELSE b

\* floor(r * 10^n / b) for 0 <= r < b, one decimal digit at a time.
RECURSIVE LongDiv(_, _, _)
LongDiv(r, b, n) ==
    IF n = 0 THEN 0
    ELSE LET t == r * 10
         IN  (t \div b) * (10 ^ (n - 1)) + LongDiv(t % b, b, n - 1)

\* a / b on the fixed-point grid, b > 0.
FxDiv(a, b) == (a \div b) * Scale + LongDiv(a % b, b, 5)

\* a * b on the fixed-point grid; the partial products keep within 32 bits.
FxMul(a, b) ==
    LET ah == a \div Scale
        al == a % Scale
        bh == b \div Scale
        bl == b % Scale
        a1 == al \div 1000
        a0 == al % 1000
        low == (a1 * bl * 10 + ((a0 * bl) \div 100)) \div 1000
    IN  ah * bh * Scale + ah * bl + al * bh + low

(***************************************************************************)
(* Rider settings (settings.ts) and climb records (slopes.ts).             *)
(***************************************************************************)
defaultSettings ==
    [ ftp |-> Dec(240, 0),
      riderWeightKg |-> Dec(60, 0),
      bikeWeightKg |-> Dec(9, 0),
      cargoWeightKg |-> Dec(3, 0),
      frontChainringTeeth |-> Dec(34, 0),
      rearSprocketTeeth |-> Dec(32, 0),
      wheelCircumferenceMm |-> Dec(2096, 0),
      minCadence |-> Dec(70, 0) ]

GRADIENT_THRESHOLDS == << 3, 5, 7, 10, 13, 17, 20, 25, 30, 40 >>

G == 980665
MIN_SPEED_FLOOR == 70000
DEFAULT_CRR == 450
DEFAULT_CDA == 32000
DEFAULT_AIR_DENSITY == 122600
MIN_SUSTAINED_DISTANCE_KM == 20000

\* gradientDistances[threshold] ?? 0
DistanceAt(gradientDistances, threshold) ==
    IF threshold \in DOMAIN gradientDistances
    THEN gradientDistances[threshold]
    ELSE 0

\* Mutant: the three weights summed without the floor at 0.
MutMassUnclamped(settings) ==
    settings.riderWeightKg + settings.bikeWeightKg + settings.cargoWeightKg

getTotalSystemMassKg(settings) ==
    LET rider == Max(settings.riderWeightKg, 0)
        bike == Max(settings.bikeWeightKg, 0)
        cargo == Max(settings.cargoWeightKg, 0)
    IN  rider + bike + cargo

\* The speed of computeMinSpeed before the final floor, the cadence floored at minCadenceFloor.
MutSpeedBeforeFloor(rider, minCadenceFloor) ==
    LET front == Max(rider.frontChainringTeeth, Dec(1, 0))
        rear == Max(rider.rearSprocketTeeth, Dec(1, 0))
        ratio == FxDiv(front, rear)
        circumferenceM == FxDiv(Max(rider.wheelCircumferenceMm, Dec(1, 0)), Dec(1000, 0))
        cadence == Max(rider.minCadence, minCadenceFloor)
    IN  FxDiv(FxMul(FxMul(cadence, ratio), circumferenceM), Dec(60, 0))

\* Mutant: the speed returned without the 0.7 m/s floor.
MutMinSpeedNoFloor(rider) == MutSpeedBeforeFloor(rider, Dec(30, 0))

\* Mutant: the cadence floored at 0 in place of 30 rpm.
MutMinSpeedCadenceFloorZero(rider) == Max(MutSpeedBeforeFloor(rider, 0), Dec(0, 70000))

computeMinSpeed(rider) ==
    LET front == Max(rider.frontChainringTeeth, Dec(1, 0))
        rear == Max(rider.rearSprocketTeeth, Dec(1, 0))
        ratio == FxDiv(front, rear)
        circumferenceM == FxDiv(Max(rider.wheelCircumferenceMm, Dec(1, 0)), Dec(1000, 0))
        cadence == Max(rider.minCadence, Dec(30, 0))
        speed == FxDiv(FxMul(FxMul(cadence, ratio), circumferenceM), Dec(60, 0))
    IN  Max(speed, MIN_SPEED_FLOOR)

\* The power formula with the gravity term signed by gravitySign, the grade
\* floored at 0 when floorGrade and the result floored at 0 when floorPower.
MutPower(grade, speed, rider, gravitySign, floorGrade, floorPower) ==
    LET mass == Max(Max(rider.riderWeightKg, 0) + Max(rider.bikeWeightKg, 0)
                    + Max(rider.cargoWeightKg, 0), Dec(40, 0))
        usedGrade == IF floorGrade THEN Max(grade, 0) ELSE grade
        rollingResistance == FxMul(FxMul(Dec(0, 450), mass), Dec(9, 80665))
        gravityForce == gravitySign * FxMul(FxMul(mass, Dec(9, 80665)), usedGrade)
        aeroForce ==
            FxMul(FxMul(FxMul(FxMul(Dec(0, 50000), Dec(1, 22600)), Dec(0, 32000)), speed), speed)
        power == FxMul(rollingResistance + gravityForce, speed) + FxMul(aeroForce, speed)
    IN  IF floorPower THEN Max(power, 0) ELSE power

\* Mutant: neither the grade nor the power is floored at 0.
MutPowerSigned(grade, speed, rider) == MutPower(grade, speed, rider, 1, FALSE, FALSE)

\* Mutant: the gravity force is subtracted from the rolling resistance.
MutPowerGravitySubtracted(grade, speed, rider) == MutPower(grade, speed, rider, -1, TRUE, TRUE)

\* Mutant: the grade is used as given, a descent lowering the power.
MutPowerGradeNotFloored(grade, speed, rider) == MutPower(grade, speed, rider, 1, FALSE, TRUE)

\* const mass = Math.max(getTotalSystemMassKg(rider), 40)
systemMass(rider) == Max(getTotalSystemMassKg(rider), Dec(40, 0))

computePowerRequirement(grade, speed, rider) ==
    LET mass == systemMass(rider)
        normalizedGrade == Max(grade, 0)
        rollingResistance == FxMul(FxMul(DEFAULT_CRR, mass), G)
        gravityForce == FxMul(FxMul(mass, G), normalizedGrade)
        aeroForce ==
            FxMul(FxMul(FxMul(FxMul(Dec(0, 50000), DEFAULT_AIR_DENSITY), DEFAULT_CDA), speed), speed)
        power == FxMul(rollingResistance + gravityForce, speed) + FxMul(aeroForce, speed)
    IN  Max(power, 0)

\* Mutant: the distance is taken in km, not in metres.
MutClimbTimeKm(distanceKm, speed) ==
    IF speed <= 0 THEN 0 ELSE FxDiv(Max(distanceKm, 0), speed)

computeClimbTime(distanceKm, speed) ==
    LET distanceMeters == Max(distanceKm, 0) * 1000
    IN  IF speed <= 0 THEN 0 ELSE FxDiv(distanceMeters, speed)

\* Mutant: a threshold qualifies only with more than 0.2 km.
RECURSIVE MutSustainedLoopStrict(_, _, _, _, _, _)
MutSustainedLoopStrict(i, maxRatio, gradientDistances, rider, minSpeed, ftpValue) ==
    IF i > Len(GRADIENT_THRESHOLDS) THEN maxRatio
    ELSE LET threshold == GRADIENT_THRESHOLDS[i]
             sustainedDistance == Max(DistanceAt(gradientDistances, threshold), 0)
             ratio == FxDiv(computePowerRequirement(FxDiv(Dec(threshold, 0), Dec(100, 0)),
                                                    minSpeed, rider), ftpValue)
         IN  MutSustainedLoopStrict(
                 i + 1,
                 IF sustainedDistance > Dec(0, 20000) THEN Max(maxRatio, ratio) ELSE maxRatio,
                 gradientDistances, rider, minSpeed, ftpValue)

\* The for loop of computeSustainedDifficultyRatio from threshold i on,
\* maxRatio being the running maximum.
RECURSIVE SustainedLoop(_, _, _, _, _, _)
SustainedLoop(i, maxRatio, gradientDistances, rider, minSpeed, ftpValue) ==
    IF i > Len(GRADIENT_THRESHOLDS) THEN maxRatio
    ELSE LET threshold == GRADIENT_THRESHOLDS[i]
             sustainedDistance == Max(DistanceAt(gradientDistances, threshold), 0)
         IN  IF sustainedDistance >= MIN_SUSTAINED_DISTANCE_KM
             THEN LET grade == FxDiv(Dec(threshold, 0), Dec(100, 0))
                      requiredPower == computePowerRequirement(grade, minSpeed, rider)
                      ratio == FxDiv(requiredPower, ftpValue)
                  IN  SustainedLoop(i + 1, Max(maxRatio, ratio), gradientDistances,
                                    rider, minSpeed, ftpValue)
             ELSE SustainedLoop(i + 1, maxRatio, gradientDistances, rider, minSpeed, ftpValue)

\* Mutant: the running maximum is returned even when no threshold qualified.
MutSustainedNoFallback(gradientDistances, rider, minSpeed, ftp, totalDistanceKm, fallbackRatio) ==
    SustainedLoop(1, 0, gradientDistances, rider, minSpeed, Max(ftp, Dec(1, 0)))

\* Mutant: the loop stops at the first qualifying threshold.
MutSustainedFirstQualifying(gradientDistances, rider, minSpeed, ftp, totalDistanceKm, fallbackRatio) ==
    LET qualifying == { i \in 1..Len(GRADIENT_THRESHOLDS) :
                          DistanceAt(gradientDistances, GRADIENT_THRESHOLDS[i]) >= Dec(0, 20000) }
        first == CHOOSE i \in qualifying : \A j \in qualifying : i <= j
    IN  IF qualifying = { } THEN fallbackRatio
        ELSE FxDiv(computePowerRequirement(FxDiv(Dec(GRADIENT_THRESHOLDS[first], 0), Dec(100, 0)),
                                           minSpeed, rider),
                   Max(ftp, Dec(1, 0)))

computeSustainedDifficultyRatio(gradientDistances, rider, minSpeed, ftp, totalDistanceKm, fallbackRatio) ==
    LET ftpValue == Max(ftp, Dec(1, 0))
        maxRatio == SustainedLoop(1, 0, gradientDistances, rider, minSpeed, ftpValue)
    IN  IF maxRatio > 0 THEN maxRatio ELSE fallbackRatio

\* Mutant: the band edges are exclusive.
MutClassifyExclusiveEdges(ratio) ==
    IF ratio < Dec(0, 85000) THEN "Friendly"
    ELSE IF ratio < Dec(1, 5000) THEN "Challenging"
    ELSE "Brutal"

classifyDifficulty(ratio) ==
    IF ratio <= Dec(0, 85000) THEN "Friendly"
    ELSE IF ratio <= Dec(1, 5000) THEN "Challenging"
    ELSE "Brutal"

\* burstWarning: number | null
Null == << >>
Some(v) == << v >>

computeDetailDifficulty(gradientDistances, rider, providedMinSpeed) ==
    LET minSpeed == IF providedMinSpeed # 0 THEN providedMinSpeed ELSE computeMinSpeed(rider)
        ftp == Max(rider.ftp, Dec(1, 0))
        Step(score, threshold) ==
            LET distance == DistanceAt(gradientDistances, threshold)
            IN  IF distance = 0 THEN score
                ELSE LET grade == FxDiv(Dec(threshold, 0), Dec(100, 0))
                         requiredPower == computePowerRequirement(grade, minSpeed, rider)
                         difficultyFactor == FxDiv(requiredPower, ftp)
                     IN  score + FxMul(FxMul(distance, Dec(threshold, 0)), difficultyFactor)
        Reduce[i \in 0..Len(GRADIENT_THRESHOLDS)] ==
            IF i = 0 THEN 0 ELSE Step(Reduce[i - 1], GRADIENT_THRESHOLDS[i])
    IN  Reduce[Len(GRADIENT_THRESHOLDS)]

buildDifficultyTags(slope, breakdown) ==
    LET sustained13 == DistanceAt(breakdown, 13) >= Dec(0, 80000)
                       \/ DistanceAt(breakdown, 10) >= Dec(1, 20000)
        punchy20 == DistanceAt(breakdown, 20) >= Dec(0, 20000)
                    \/ DistanceAt(breakdown, 25) >= Dec(0, 10000)
        walls30 == DistanceAt(breakdown, 30) >= Dec(0, 3000)
                   \/ DistanceAt(breakdown, 40) > 0
        endurance == slope.distanceKm >= Dec(4, 0) /\ slope.avgGradient >= Dec(5, 0)
        tags == (IF sustained13 THEN << "sustained13" >> ELSE << >>)
                \o (IF punchy20 THEN << "punchy20" >> ELSE << >>)
                \o (IF walls30 THEN << "wall30" >> ELSE << >>)
                \o (IF endurance THEN << "endurance" >> ELSE << >>)
    IN  IF tags # << >> THEN tags
        ELSE IF slope.avgGradient < Dec(5, 0) THEN << "rolling" >>
        ELSE << "balanced" >>

\* Mutant: the label of the average ratio alone.
MutSuitabilityAverageOnly(ftpRatio, sustainedFtpRatio) == classifyDifficulty(ftpRatio)

\* Mutant: the burst threshold is inclusive.
MutBurstInclusive(peakFtpRatio) ==
    IF peakFtpRatio >= Dec(1, 20000) THEN << peakFtpRatio >> ELSE << >>

\* Mutant: the label is taken from the sustained ratio alone.
MutSuitabilitySustainedOnly(ftpRatio, sustainedFtpRatio) ==
    classifyDifficulty(sustainedFtpRatio)

\* const suitability = classifyDifficulty(Math.max(ftpRatio, sustainedFtpRatio))
suitabilityOf(ftpRatio, sustainedFtpRatio) ==
    classifyDifficulty(Max(ftpRatio, sustainedFtpRatio))

\* const burstWarning = peakFtpRatio > 1.2 ? peakFtpRatio : null
burstWarningOf(peakFtpRatio) ==
    IF peakFtpRatio > Dec(1, 20000) THEN Some(peakFtpRatio) ELSE Null

\* Mutant: the FTP is floored at 100 W.
MutFtpFloorHundred(rider) == Max(rider.ftp, Dec(100, 0))

\* const ftp = Math.max(rider.ftp, 1)
ftpOf(rider) == Max(rider.ftp, Dec(1, 0))

enrichSlope(slope, rider) ==
    LET minSpeed == computeMinSpeed(rider)
        averagePower == computePowerRequirement(FxDiv(slope.avgGradient, Dec(100, 0)), minSpeed, rider)
        peakPower == computePowerRequirement(FxDiv(slope.maxGradient, Dec(100, 0)), minSpeed, rider)
        ftp == ftpOf(rider)
        ftpRatio == FxDiv(averagePower, ftp)
        peakFtpRatio == FxDiv(peakPower, ftp)
        climbTimeSeconds == computeClimbTime(slope.distanceKm, minSpeed)
        sustainedFtpRatio ==
            computeSustainedDifficultyRatio(slope.gradientDistances, rider, minSpeed, ftp,
                                            slope.distanceKm, ftpRatio)
        suitability == suitabilityOf(ftpRatio, sustainedFtpRatio)
        burstWarning == burstWarningOf(peakFtpRatio)
        detailDifficultyScore == computeDetailDifficulty(slope.gradientDistances, rider, minSpeed)
        difficultyTags == buildDifficultyTags(slope, slope.gradientDistances)
    IN  [ name |-> slope.name,
          location |-> slope.location,
          distanceKm |-> slope.distanceKm,
          totalAscent |-> slope.totalAscent,
          avgGradient |-> slope.avgGradient,
          maxGradient |-> slope.maxGradient,
          gradientDistances |-> slope.gradientDistances,
          pathGroupId |-> slope.pathGroupId,
          youtubeLink |-> slope.youtubeLink,
          detailDifficultyScore |-> detailDifficultyScore,
          metrics |-> [ minSpeedMps |-> minSpeed,
                        averagePowerWatts |-> averagePower,
                        peakPowerWatts |-> peakPower,
                        ftpRatio |-> ftpRatio,
                        peakFtpRatio |-> peakFtpRatio,
                        sustainedFtpRatio |-> sustainedFtpRatio,
                        climbTimeSeconds |-> climbTimeSeconds ],
          suitability |-> suitability,
          burstWarning |-> burstWarning,
          difficultyTags |-> difficultyTags ]

(***************************************************************************)
(* The settings store's helpers and the derived catalogue.  An object read *)
(* from JSON is a function from its keys to Some(n), a finite number, or   *)
(* Null, any other JSON value; an absent key is undefined.                 *)
(***************************************************************************)
SettingKeys == DOMAIN defaultSettings

\* value?.key
Candidate(value, key) == IF key \in DOMAIN value THEN value[key] ELSE Null

toNumber(candidate, fallback) == IF candidate # Null THEN candidate[1] ELSE fallback

normalizeSettings(value) ==
    LET legacyMass == toNumber(Candidate(value, "massKg"),
                               defaultSettings.riderWeightKg + defaultSettings.bikeWeightKg
                                   + defaultSettings.cargoWeightKg)
        hasNewWeights == \/ "riderWeightKg" \in DOMAIN value
                         \/ "bikeWeightKg" \in DOMAIN value
                         \/ "cargoWeightKg" \in DOMAIN value
        bikeWeightKg == toNumber(Candidate(value, "bikeWeightKg"), defaultSettings.bikeWeightKg)
        cargoWeightKg == toNumber(Candidate(value, "cargoWeightKg"), defaultSettings.cargoWeightKg)
        inferredRider == legacyMass - bikeWeightKg - cargoWeightKg
        riderWeightKg ==
            IF ~hasNewWeights /\ "massKg" \in DOMAIN value
            THEN Max(inferredRider, defaultSettings.riderWeightKg)
            ELSE toNumber(Candidate(value, "riderWeightKg"), defaultSettings.riderWeightKg)
    IN  [ ftp |-> toNumber(Candidate(value, "ftp"), defaultSettings.ftp),
          riderWeightKg |-> riderWeightKg,
          bikeWeightKg |-> bikeWeightKg,
          cargoWeightKg |-> cargoWeightKg,
          frontChainringTeeth |-> toNumber(Candidate(value, "frontChainringTeeth"),
                                           defaultSettings.frontChainringTeeth),
          rearSprocketTeeth |-> toNumber(Candidate(value, "rearSprocketTeeth"),
                                         defaultSettings.rearSprocketTeeth),
          wheelCircumferenceMm |-> toNumber(Candidate(value, "wheelCircumferenceMm"),
                                            defaultSettings.wheelCircumferenceMm),
          minCadence |-> toNumber(Candidate(value, "minCadence"), defaultSettings.minCadence) ]

cloneSettings(value) == [ key \in SettingKeys |-> value[key] ]

\* JSON.stringify of a settings object, as JSON.parse reads it back.
Stringified(value) == [ key \in DOMAIN value |-> Some(value[key]) ]

\* raw is the item of localStorage: Null when absent, else Some(object).
loadFromStorage(raw) == IF raw = Null THEN Null ELSE Some(normalizeSettings(raw[1]))

\* Mutant: the derived list is built back to front.
MutDeriveReversed(slopes, settingsValue) ==
    [ i \in 1..Len(slopes) |-> enrichSlope(slopes[Len(slopes) + 1 - i], settingsValue) ]

\* The callback of the derived store computedSlopes.
deriveComputedSlopes(slopes, settingsValue) ==
    [ i \in 1..Len(slopes) |-> enrichSlope(slopes[i], settingsValue) ]

(***************************************************************************)
(* The CSV loader.  A file is its header line and its other non-blank      *)
(* lines, each already split into trimmed cells as parseCsvLine does; a    *)
(* cell of a text column is a string, a cell of a number column the tuple  *)
(* of its characters.  A function that may throw returns Ok(value) or      *)
(* Thrown(message).                                                        *)
(***************************************************************************)
Ok(value) == [ ok |-> TRUE, value |-> value ]

\* throw new Error(message)
Thrown(message) == [ ok |-> FALSE, error |-> [ isError |-> TRUE, message |-> message ] ]

DigitChars == << "0", "1", "2", "3", "4", "5", "6", "7", "8", "9" >>

IsDigits(text) == \A i \in 1..Len(text) : \E d \in 1..Len(DigitChars) : DigitChars[d] = text[i]

\* The whole number a run of digits writes.
RECURSIVE DigitsValue(_)
DigitsValue(text) ==
    IF text = << >> THEN 0
    ELSE LET last == text[Len(text)]
             digit == CHOOSE d \in 1..Len(DigitChars) : DigitChars[d] = last
         IN  DigitsValue(SubSeq(text, 1, Len(text) - 1)) * 10 + (digit - 1)

\* The text of a cell as one string.
RECURSIVE Join(_)
Join(text) == IF text = << >> THEN "" ELSE Head(text) \o Join(Tail(text))

\* Number(value) for a decimal text (sign, digits, point, up to five
\* fractional digits): Some(n), or Null where Number gives NaN.
Number(text) ==
    LET negative == Len(text) > 0 /\ Head(text) = "-"
        body == IF negative THEN Tail(text) ELSE text
        points == { i \in 1..Len(body) : body[i] = "." }
        point == IF points = { } THEN Len(body) + 1 ELSE CHOOSE i \in points : TRUE
        whole == SubSeq(body, 1, point - 1)
        fraction == SubSeq(body, point + 1, Len(body))
        wellFormed == /\ Cardinality(points) <= 1
                      /\ IsDigits(whole) /\ IsDigits(fraction)
                      /\ Len(whole) + Len(fraction) >= 1
                      /\ Len(fraction) <= 5
        magnitude == DigitsValue(whole) * Scale + DigitsValue(fraction) * 10 ^ (5 - Len(fraction))
    IN  IF ~wellFormed THEN Null
        ELSE Some(IF negative THEN -magnitude ELSE magnitude)

\* record[key]: Null where the file has no such column.
Cell(record, key) == IF key \in DOMAIN record THEN Some(record[key]) ELSE Null

\* a ?? b
Coalesce(a, b) == IF a # Null THEN a ELSE b

parseNumberField(value, field, lineNumber) ==
    IF value = Null \/ value[1] = << >>
    THEN Thrown("Row " \o ToString(lineNumber) \o " is missing a value for " \o field \o ".")
    ELSE LET parsed == Number(value[1])
         IN  IF parsed = Null
             THEN Thrown("Row " \o ToString(lineNumber) \o " has an invalid number for "
                             \o field \o ": " \o Join(value[1]))
             ELSE Ok(parsed[1])

parseOptionalNumberField(value, field, lineNumber, fallback) ==
    IF value = Null \/ value[1] = << >>
    THEN Ok(fallback)
    ELSE LET parsed == Number(value[1])
         IN  IF parsed = Null
             THEN Thrown("Row " \o ToString(lineNumber) \o " has an invalid number for "
                             \o field \o ": " \o Join(value[1]))
             ELSE Ok(parsed[1])

\* `gradient_${threshold}_distance_km`
GradientKey(threshold) == "gradient_" \o ToString(threshold) \o "_distance_km"

\* Mutant: a threshold column that is absent or empty makes the row fail.
MutGradientDistancesRequired(record, lineNumber) ==
    LET parsed(t) == parseNumberField(Cell(record, GradientKey(t)), GradientKey(t), lineNumber)
        failed == { i \in 1..Len(GRADIENT_THRESHOLDS) : ~parsed(GRADIENT_THRESHOLDS[i]).ok }
    IN  IF failed = { }
        THEN Ok([ t \in { GRADIENT_THRESHOLDS[i] : i \in 1..Len(GRADIENT_THRESHOLDS) } |->
                    Max(0, parsed(t).value) ])
        ELSE parsed(GRADIENT_THRESHOLDS[CHOOSE i \in failed : \A j \in failed : i <= j])

\* The reduce over the thresholds: the first column that fails throws.
parseGradientDistances(record, lineNumber) ==
    LET parsed(t) == parseOptionalNumberField(Cell(record, GradientKey(t)), GradientKey(t),
                                              lineNumber, 0)
        failed == { i \in 1..Len(GRADIENT_THRESHOLDS) : ~parsed(GRADIENT_THRESHOLDS[i]).ok }
    IN  IF failed = { }
        THEN Ok([ t \in { GRADIENT_THRESHOLDS[i] : i \in 1..Len(GRADIENT_THRESHOLDS) } |->
                    Max(0, parsed(t).value) ])
        ELSE parsed(GRADIENT_THRESHOLDS[CHOOSE i \in failed : \A j \in failed : i <= j])

\* (text ?? '') || null, the cell being trimmed already.
OrNull(value) == IF value = Null \/ value[1] = "" THEN Null ELSE value

transformRecord(record, lineNumber) ==
    LET name == Cell(record, "name")
        location == Cell(record, "location")
        distanceKm == parseNumberField(
            Coalesce(Cell(record, "distance_km"), Cell(record, "distancekm")),
            "distance_km", lineNumber)
        totalAscent == parseNumberField(
            Coalesce(Cell(record, "total_ascent_m"),
                     Coalesce(Cell(record, "total_ascent"), Cell(record, "elev_gain_m"))),
            "total_ascent_m", lineNumber)
        avgGradient == parseNumberField(
            Coalesce(Cell(record, "avg_gradient"), Cell(record, "avg_gradient_pct")),
            "avg_gradient", lineNumber)
        maxGradient == parseNumberField(
            Coalesce(Cell(record, "max_gradient"), Cell(record, "max_gradient_pct")),
            "max_gradient", lineNumber)
        gradientDistances == parseGradientDistances(record, lineNumber)
        pathGroupId == Coalesce(Cell(record, "path_group_id"),
                                Coalesce(Cell(record, "group_id"), Cell(record, "pathgroupid")))
        youtubeLink == Cell(record, "youtube_link")
    IN  IF ~distanceKm.ok THEN distanceKm
        ELSE IF ~totalAscent.ok THEN totalAscent
        ELSE IF ~avgGradient.ok THEN avgGradient
        ELSE IF ~maxGradient.ok THEN maxGradient
        ELSE IF ~gradientDistances.ok THEN gradientDistances
        ELSE IF name = Null \/ name[1] = ""
        THEN Thrown("Row " \o ToString(lineNumber) \o " is missing a name column.")
        ELSE IF location = Null \/ location[1] = ""
        THEN Thrown("Row " \o ToString(lineNumber) \o " is missing a location column.")
        ELSE Ok([ name |-> name[1],
                  location |-> location[1],
                  distanceKm |-> distanceKm.value,
                  totalAscent |-> totalAscent.value,
                  avgGradient |-> avgGradient.value,
                  maxGradient |-> maxGradient.value,
                  gradientDistances |-> gradientDistances.value,
                  pathGroupId |-> OrNull(pathGroupId),
                  youtubeLink |-> OrNull(youtubeLink) ])

\* Object.fromEntries of the headers with the cells of one line.
RecordOf(headers, values) ==
    [ header \in { headers[i] : i \in 1..Len(headers) } |->
        values[CHOOSE i \in 1..Len(headers) :
                   headers[i] = header /\ \A j \in 1..Len(headers) : headers[j] = header => j <= i] ]

\* Mutant: a line that fails is left out and the others are kept.
RECURSIVE MutParseRowsSkipsBadRows(_, _, _)
MutParseRowsSkipsBadRows(file, i, records) ==
    IF i > Len(file.rows) THEN Ok(records)
    ELSE LET values == file.rows[i]
         IN  IF Len(values) # Len(file.headers)
             THEN MutParseRowsSkipsBadRows(file, i + 1, records)
             ELSE LET row == transformRecord(RecordOf(file.headers, values), i + 1)
                  IN  MutParseRowsSkipsBadRows(file, i + 1,
                          IF row.ok THEN Append(records, row.value) ELSE records)

\* The forEach of parseCsv from line i on, records being those pushed so
\* far; line i of the rows is row i + 1 of the file.
RECURSIVE ParseRows(_, _, _)
ParseRows(file, i, records) ==
    IF i > Len(file.rows) THEN Ok(records)
    ELSE LET values == file.rows[i]
         IN  IF Len(values) # Len(file.headers)
             THEN Thrown("Row " \o ToString(i + 1) \o " has " \o ToString(Len(values))
                             \o " columns, expected " \o ToString(Len(file.headers)) \o ".")
             ELSE LET row == transformRecord(RecordOf(file.headers, values), i + 1)
                  IN  IF row.ok THEN ParseRows(file, i + 1, Append(records, row.value))
                      ELSE row

\* A text with no header line is the empty text.
parseCsv(file) ==
    IF file.headers = << >> THEN Ok(<< >>) ELSE ParseRows(file, 1, << >>)

\* What fetch resolved or rejected with, taken to the records or the error
\* of fetchCsv.
fetchCsv(response) ==
    IF response.rejected THEN [ ok |-> FALSE, error |-> response.error ]
    ELSE IF ~response.ok
    THEN Thrown("Failed to fetch slopes dataset (status " \o ToString(response.status) \o ")")
    ELSE parseCsv(response.text)

\* The header line of the dataset and two of its lines.
DatasetHeaders ==
    << "name", "location", "distance_km", "total_ascent_m", "avg_gradient", "max_gradient",
       "gradient_3_distance_km", "gradient_5_distance_km", "gradient_7_distance_km",
       "gradient_13_distance_km", "path_group_id", "youtube_link" >>

PeakRoadLine ==
    << "Peak Road", "Hong Kong Island", << "5", ".", "6" >>, << "3", "6", "0" >>,
       << "9", ".", "5" >>, << "1", "8" >>,
       << "0", ".", "5" >>, << "0", ".", "5" >>, << "0", ".", "5" >>, << >>,
       "peak-road", "" >>

RouteTwiskLine ==
    << "Route Twisk", "New Territories", << "0", ".", "1", "5" >>, << "4", "0", "0" >>,
       << "2" >>, << "5" >>,
       << >>, << >>, << >>, << ".", "5" >>,
       "", "https://youtu.be/twisk" >>

\* A dataset of an older layout: other column names, no histogram columns.
OlderHeaders ==
    << "name", "location", "distancekm", "elev_gain_m", "avg_gradient_pct", "max_gradient_pct",
       "group_id" >>

MountParkerLine ==
    << "Mount Parker Road", "Hong Kong Island", << "1", "2" >>, << "3", "0", "0" >>,
       << "-", "2" >>, << "5" >>, "parker" >>

File(headers, rows) == [ headers |-> headers, rows |-> rows ]

\* The texts the server may send with status 200: three that parse (one
\* empty) and three with a line that fails, in row 3, 2 and 3.
Files ==
    { File(<< >>, << >>),
      File(DatasetHeaders, << PeakRoadLine, RouteTwiskLine >>),
      File(OlderHeaders, << MountParkerLine >>),
      File(DatasetHeaders, << PeakRoadLine, SubSeq(RouteTwiskLine, 1, 3) >>),
      File(DatasetHeaders, << [ RouteTwiskLine EXCEPT ![5] = << "a", "b", "c" >> ], PeakRoadLine >>),
      File(DatasetHeaders, << PeakRoadLine, [ RouteTwiskLine EXCEPT ![1] = "" ] >>) }

\* What fetch may settle with: a rejection with an Error or with another
\* value, a response that is not ok, a response with a text.
Responses ==
    { [ rejected |-> TRUE, error |-> [ isError |-> FALSE, message |-> "" ] ],
      [ rejected |-> FALSE, ok |-> FALSE, status |-> 404, text |-> File(<< >>, << >>) ] }
    \cup { [ rejected |-> FALSE, ok |-> TRUE, status |-> 200, text |-> file ] : file \in Files }

\* The records handed to transformRecord: those of the lines above, a line
\* with a threshold cell that is not a number, and a line with a negative one.
RowRecords ==
    { RecordOf(DatasetHeaders, PeakRoadLine),
      RecordOf(DatasetHeaders, RouteTwiskLine),
      RecordOf(OlderHeaders, MountParkerLine),
      RecordOf(DatasetHeaders, [ RouteTwiskLine EXCEPT ![1] = "" ]),
      RecordOf(DatasetHeaders, [ RouteTwiskLine EXCEPT ![5] = << "a", "b", "c" >> ]),
      RecordOf(DatasetHeaders, [ RouteTwiskLine EXCEPT ![8] = << "n", "/", "a" >> ]),
      RecordOf(DatasetHeaders, [ PeakRoadLine EXCEPT ![9] = << "-", "1" >> ]) }

(***************************************************************************)
(* The range filter store of src/lib/filters.ts.  A number passed in is    *)
(* Some(n) when finite and Null when not (NaN, Infinity); a stored bound   *)
(* is a finite number.                                                     *)
(***************************************************************************)
Min(a, b) == IF a <= b THEN a ELSE b

\* The arguments of createRangeStore for gradientRange.
GradientInitial == [ min |-> 0, max |-> Dec(20, 0) ]
DEFAULT_GRADIENT_LIMITS == [ min |-> 0, max |-> Dec(25, 0) ]

RangeOf(min, max) == [ min |-> min, max |-> max ]

\* limits is Null when createRangeStore is given none.
clampValue(value, key, initial, limits) ==
    IF value = Null THEN initial[key]
    ELSE IF limits = Null THEN value[1]
    ELSE Min(limits[1].max, Max(limits[1].min, value[1]))

\* Mutant: a lower bound above the upper bound is kept.
MutNormalizeRangeUnordered(range, initial, limits) ==
    [ min |-> clampValue(range.min, "min", initial, limits),
      max |-> clampValue(range.max, "max", initial, limits) ]

normalizeRange(range, initial, limits) ==
    LET min == clampValue(range.min, "min", initial, limits)
        max == clampValue(range.max, "max", initial, limits)
    IN  IF min > max THEN [ min |-> max, max |-> max ] ELSE [ min |-> min, max |-> max ]

(***************************************************************************)
(* The saved-profiles store.  A profile name is the tuple of its           *)
(* characters; an id is the number of the generateId call that made it.    *)
(***************************************************************************)
\* String.prototype.trim, the white space being blanks.
RECURSIVE trim(_)
trim(text) ==
    IF text = << >> THEN text
    ELSE IF Head(text) = " " THEN trim(Tail(text))
    ELSE IF text[Len(text)] = " " THEN trim(SubSeq(text, 1, Len(text) - 1))
    ELSE text

UpperChars == << "A", "C", "E", "R", "T" >>
LowerChars == << "a", "c", "e", "r", "t" >>

\* String.prototype.toLowerCase over the letters the names use.
toLowerCase(text) ==
    [ i \in 1..Len(text) |->
        IF \E k \in 1..Len(UpperChars) : UpperChars[k] = text[i]
        THEN LowerChars[CHOOSE k \in 1..Len(UpperChars) : UpperChars[k] = text[i]]
        ELSE text[i] ]

\* Mutant: the names are compared as written.
MutFindIndexCaseSensitive(profiles, trimmed) ==
    LET matching == { i \in 1..Len(profiles) : profiles[i].name = trimmed }
    IN  IF matching = { } THEN 0 ELSE CHOOSE i \in matching : \A j \in matching : i <= j

\* findIndex by name ignoring case: 0 where JavaScript gives -1.
findIndexByName(profiles, trimmed) ==
    LET matching == { i \in 1..Len(profiles) :
                        toLowerCase(profiles[i].name) = toLowerCase(trimmed) }
    IN  IF matching = { } THEN 0 ELSE CHOOSE i \in matching : \A j \in matching : i <= j

\* next.sort((a, b) => b.updatedAt - a.updatedAt): newest first, profiles
\* of one time in the order they had.
RECURSIVE sortByUpdatedAt(_)
sortByUpdatedAt(profiles) ==
    IF Len(profiles) <= 1 THEN profiles
    ELSE LET last == profiles[Len(profiles)]
             front == sortByUpdatedAt(SubSeq(profiles, 1, Len(profiles) - 1))
             before == Cardinality({ i \in 1..Len(front) : front[i].updatedAt >= last.updatedAt })
         IN  SubSeq(front, 1, before) \o << last >> \o SubSeq(front, before + 1, Len(front))

\* profiles.filter((profile) => profile.id !== id)
RECURSIVE withoutId(_, _)
withoutId(profiles, id) ==
    IF profiles = << >> THEN << >>
    ELSE IF Head(profiles).id = id THEN withoutId(Tail(profiles), id)
    ELSE << Head(profiles) >> \o withoutId(Tail(profiles), id)

(***************************************************************************)
(* The engine's entry points as a state machine: a call frame holds the    *)
(* function called and its arguments, the action of that function runs it  *)
(* and stores what it returns.  The stores of the application are the      *)
(* other variables: the engine's actions leave them alone.                 *)
(***************************************************************************)
VARIABLES call, ret, pc

\* settingsStore: the value of the settings store; storage: the settings
\* item of localStorage; slopesStore, loadStateStore, errorStore, hasLoaded,
\* currentRequest: the loader's module state (a request is its number, 0 is
\* null); pendingRequests: the fetches not yet settled; requestCount: the
\* fetches started; computedSlopes: the value the derived store last gave
\* its subscribers; engineLog: the last run of the derived store's callback,
\* with the load state it ran under and the number of climbs it enriched;
\* objects: the settings objects other than the
\* published one, namely the content of the module's defaultSettings, whether
\* the object published before and the object last passed to setAll still
\* hold what they held, which of them the published object is, and the last
\* call of a method of the settings store.
VARIABLES settingsStore, storage, slopesStore, loadStateStore, errorStore, hasLoaded,
          currentRequest, pendingRequests, requestCount, computedSlopes, engineLog,
          objects

\* gradientRange: the value of the gradient range filter store; rangeCall:
\* the last call of one of its methods.
VARIABLES gradientRange, rangeCall

\* savedProfiles: the value of the saved-profiles store; profilesStorage: the
\* profiles item of localStorage; clock: Date.now(); idsIssued: the ids
\* generateId has returned; outcome: the last call of saveProfile or
\* deleteProfile with its first argument and what it returned or threw.
VARIABLES savedProfiles, profilesStorage, clock, idsIssued, outcome

engineVars == << call, ret, pc >>

appVars == << settingsStore, storage, slopesStore, loadStateStore, errorStore, hasLoaded,
              currentRequest, pendingRequests, requestCount, computedSlopes, engineLog,
              objects >>

filterVars == << gradientRange, rangeCall >>

profileVars == << savedProfiles, profilesStorage, clock, idsIssued, outcome >>

sideVars == << filterVars, profileVars >>

vars == << engineVars, appVars, sideVars >>

\* The module state after construction; raw is what localStorage holds.
createStores(raw) ==
    LET loaded == loadFromStorage(raw)
        initial == IF loaded # Null THEN loaded[1] ELSE defaultSettings
    IN  /\ settingsStore = cloneSettings(initial)
        /\ storage = Some(Stringified(cloneSettings(initial)))
        /\ slopesStore = << >>
        /\ loadStateStore = "idle"
        /\ errorStore = Null
        /\ hasLoaded = FALSE
        /\ currentRequest = 0
        /\ pendingRequests = { }
        /\ requestCount = 0
        /\ computedSlopes = deriveComputedSlopes(<< >>, cloneSettings(initial))
        /\ engineLog = [ loadState |-> "idle", climbs |-> 0, by |-> "subscribe" ]
        /\ objects = [ defaultSettings |-> defaultSettings, previousIntact |-> TRUE,
                       argumentIntact |-> TRUE, sharedWith |-> { }, call |-> << "create" >> ]

\* Largest whole-percent gradient of the grades tried, up and down.
MaxGradePct == 12
\* Number of leading thresholds a stepped histogram fills.
MaxFilled == 5
\* Ratios are tried in steps of 0.05 up to this many steps either side of 0.
MaxRatioSteps == 60

Percent(p) == FxDiv(Dec(p, 0), Dec(100, 0))

RiderWith(ftp, weights, gearing) ==
    [ ftp |-> ftp,
      riderWeightKg |-> weights[1],
      bikeWeightKg |-> weights[2],
      cargoWeightKg |-> weights[3],
      frontChainringTeeth |-> gearing[1],
      rearSprocketTeeth |-> gearing[2],
      wheelCircumferenceMm |-> gearing[3],
      minCadence |-> gearing[4] ]

FtpValues == { -Dec(50, 0), 0, Dec(150, 0), Dec(240, 0) }

WeightValues ==
    { << Dec(60, 0), Dec(9, 0), Dec(3, 0) >>,
      << Dec(60, 0), Dec(9, 0), -Dec(3, 0) >>,
      << -Dec(10, 0), Dec(9, 0), Dec(3, 0) >>,
      << Dec(20, 0), Dec(9, 50000), 0 >>,
      << Dec(28, 0), Dec(9, 0), Dec(3, 0) >>,
      << -Dec(60, 0), -Dec(9, 0), -Dec(3, 0) >>,
      << Dec(120, 0), Dec(15, 0), Dec(20, 0) >> }

FrontValues == { -Dec(2, 0), 0, Dec(20, 0), Dec(34, 0) }
RearValues == { 0, Dec(32, 0), Dec(42, 0) }
WheelValues == { -Dec(100, 0), 0, Dec(1000, 0), Dec(2096, 0) }
CadenceValues == { -Dec(10, 0), 0, Dec(20, 0), Dec(30, 0), Dec(70, 0), Dec(90, 0) }

GearingValues == FrontValues \X RearValues \X WheelValues \X CadenceValues

defaultWeights ==
    << defaultSettings.riderWeightKg, defaultSettings.bikeWeightKg, defaultSettings.cargoWeightKg >>

defaultGearing ==
    << defaultSettings.frontChainringTeeth, defaultSettings.rearSprocketTeeth,
       defaultSettings.wheelCircumferenceMm, defaultSettings.minCadence >>

SpeedRiders == { RiderWith(defaultSettings.ftp, defaultWeights, g) : g \in GearingValues }

\* The speeds computeMinSpeed produces for the gearings tried.
Speeds == { computeMinSpeed(r) : r \in SpeedRiders }

PowerSpeeds ==
    { computeMinSpeed(RiderWith(defaultSettings.ftp, defaultWeights, g)) :
        g \in { defaultGearing,
                << Dec(20, 0), Dec(42, 0), Dec(1000, 0), Dec(30, 0) >>,
                << Dec(34, 0), 0, Dec(1000, 0), Dec(20, 0) >> } }

Grades == { Percent(p) : p \in (-MaxGradePct)..MaxGradePct } \cup { Dec(0, 9500), -Dec(0, 1) }

PowerRiders == { RiderWith(defaultSettings.ftp, w, defaultGearing) : w \in WeightValues }

Ratios ==
    { k * Dec(0, 5000) : k \in (-MaxRatioSteps)..MaxRatioSteps }
    \cup { Dec(0, 84999), Dec(0, 85001), Dec(1, 4999), Dec(1, 5001) }

ThresholdSet == { GRADIENT_THRESHOLDS[i] : i \in 1..Len(GRADIENT_THRESHOLDS) }

\* The first k thresholds hold distance d, the others 0.
Stepped(k, d) ==
    [ t \in ThresholdSet |->
        IF \E i \in 1..k : i <= Len(GRADIENT_THRESHOLDS) /\ GRADIENT_THRESHOLDS[i] = t
        THEN d ELSE 0 ]

SteppedHistograms ==
    { Stepped(k, d) : k \in 0..MaxFilled, d \in { Dec(0, 19999), Dec(0, 20000), Dec(0, 50000) } }

Histograms ==
    SteppedHistograms
    \cup { << >>,
           [ t \in { 13 } |-> Dec(0, 50000) ],
           [ t \in ThresholdSet |-> IF t <= 5 THEN -Dec(1, 0) ELSE 0 ],
           [ t \in ThresholdSet |-> IF t = 20 THEN Dec(0, 20000)
                                    ELSE IF t <= 5 THEN -Dec(1, 0) ELSE 0 ],
           [ t \in ThresholdSet |-> IF t <= 7 THEN Dec(1, 50000)
                                    ELSE IF t <= 13 THEN Dec(0, 20000)
                                    ELSE IF t <= 17 THEN Dec(0, 10000) ELSE 0 ] }

SlopeWith(avg, mx, km, hist) ==
    [ name |-> "Peak Road",
      location |-> "Hong Kong Island",
      distanceKm |-> km,
      totalAscent |-> Dec(360, 0),
      avgGradient |-> avg,
      maxGradient |-> mx,
      gradientDistances |-> hist,
      pathGroupId |-> Some("peak-road"),
      youtubeLink |-> Null ]

Slopes ==
    { SlopeWith(a, m, Dec(5, 60000), h) :
        a \in { -Dec(2, 0), Dec(2, 0), Dec(9, 50000) },
        m \in { Dec(5, 0), Dec(18, 0) },
        h \in Histograms }
    \cup { SlopeWith(Dec(9, 50000), Dec(18, 0), km, << >>) :
             km \in { -Dec(1, 50000), 0, Dec(0, 15000), Dec(12, 0) } }

\* 284.92218 puts the default rider's peak ratio at 18% on 1.2 exactly.
EnrichRiders ==
    { RiderWith(f, w, g) :
        f \in { -Dec(50, 0), 0, Dec(150, 0), Dec(240, 0), Dec(284, 92218) },
        w \in { defaultWeights, << Dec(20, 0), Dec(9, 50000), 0 >> },
        g \in { defaultGearing, << Dec(20, 0), Dec(42, 0), Dec(1000, 0), Dec(30, 0) >> } }

SustainedHistograms ==
    Histograms
    \cup { [ t \in { u } |-> d ] : u \in ThresholdSet, d \in { Dec(0, 19999), Dec(0, 20000) } }

SustainedCalls ==
    [ op : { "computeSustainedDifficultyRatio" },
      gradientDistances : SustainedHistograms,
      rider : { defaultSettings, RiderWith(0, << Dec(20, 0), Dec(9, 50000), 0 >>, defaultGearing) },
      minSpeed : { MIN_SPEED_FLOOR, computeMinSpeed(defaultSettings) },
      ftp : { 0, Dec(240, 0) },
      totalDistanceKm : { Dec(5, 60000) },
      fallbackRatio : { 0, Dec(0, 50000), Dec(7, 0) } ]

Calls ==
    [ op : { "classifyDifficulty" }, ratio : Ratios ]
    \cup [ op : { "computeMinSpeed" }, rider : SpeedRiders ]
    \cup [ op : { "computePowerRequirement" }, grade : Grades, speed : PowerSpeeds, rider : PowerRiders ]
    \cup SustainedCalls
    \cup [ op : { "enrichSlope" }, slope : Slopes, rider : EnrichRiders ]
    \cup [ op : { "transformRecord" }, record : RowRecords, lineNumber : { 2, 3 } ]

\* The filter store and the saved-profiles store after construction, with
\* no profiles in localStorage.
createSideStores ==
    /\ gradientRange = normalizeRange(RangeOf(Some(GradientInitial.min), Some(GradientInitial.max)),
                                      GradientInitial, Some(DEFAULT_GRADIENT_LIMITS))
    /\ rangeCall = [ op |-> "create", min |-> Null, max |-> Null ]
    /\ savedProfiles = << >>
    /\ profilesStorage = << >>
    /\ clock = 0
    /\ idsIssued = 0
    /\ outcome = [ op |-> "create", argument |-> Null, thrown |-> FALSE, returned |-> Null ]

EngineInit ==
    /\ call \in Calls
    /\ ret = "pending"
    /\ pc = "call"
    /\ createStores(Null)
    /\ createSideStores

CallClassifyDifficulty ==
    /\ pc = "call"
    /\ call.op = "classifyDifficulty"
    /\ ret' = classifyDifficulty(call.ratio)
    /\ pc' = "done"
    /\ UNCHANGED call
    /\ UNCHANGED << appVars, sideVars >>

CallComputeMinSpeed ==
    /\ pc = "call"
    /\ call.op = "computeMinSpeed"
    /\ ret' = computeMinSpeed(call.rider)
    /\ pc' = "done"
    /\ UNCHANGED call
    /\ UNCHANGED << appVars, sideVars >>

CallComputePowerRequirement ==
    /\ pc = "call"
    /\ call.op = "computePowerRequirement"
    /\ ret' = computePowerRequirement(call.grade, call.speed, call.rider)
    /\ pc' = "done"
    /\ UNCHANGED call
    /\ UNCHANGED << appVars, sideVars >>

CallComputeSustainedDifficultyRatio ==
    /\ pc = "call"
    /\ call.op = "computeSustainedDifficultyRatio"
    /\ ret' = computeSustainedDifficultyRatio(call.gradientDistances, call.rider, call.minSpeed,
                                              call.ftp, call.totalDistanceKm, call.fallbackRatio)
    /\ pc' = "done"
    /\ UNCHANGED call
    /\ UNCHANGED << appVars, sideVars >>

\* Mutant: the climb's distance is clamped in the record passed in.
MutCallEnrichSlopeInPlace ==
    /\ pc = "call"
    /\ call.op = "enrichSlope"
    /\ ret' = enrichSlope(call.slope, call.rider)
    /\ pc' = "done"
    /\ call' = [ call EXCEPT !.slope.distanceKm = Max(@, 0) ]
    /\ UNCHANGED << appVars, sideVars >>

CallEnrichSlope ==
    /\ pc = "call"
    /\ call.op = "enrichSlope"
    /\ ret' = enrichSlope(call.slope, call.rider)
    /\ pc' = "done"
    /\ UNCHANGED call
    /\ UNCHANGED << appVars, sideVars >>

CallTransformRecord ==
    /\ pc = "call"
    /\ call.op = "transformRecord"
    /\ ret' = transformRecord(call.record, call.lineNumber)
    /\ pc' = "done"
    /\ UNCHANGED call
    /\ UNCHANGED << appVars, sideVars >>

EngineNext ==
    \/ CallClassifyDifficulty
    \/ CallComputeMinSpeed
    \/ CallComputePowerRequirement
    \/ CallComputeSustainedDifficultyRatio
    \/ CallEnrichSlope
    \/ CallTransformRecord

EngineSpec == EngineInit /\ [][EngineNext]_vars

Returned(op) == pc = "done" /\ call.op = op

(***************************************************************************)
(* The application: the settings store, the slope loader and the derived   *)
(* store computedSlopes, which the Filters component subscribes to for as  *)
(* long as the page lives.  One action per exported operation and per      *)
(* promise handler; a handler runs to completion, and every set of         *)
(* slopesStore or of the settings store runs the derived store's callback  *)
(* before the handler goes on.                                             *)
(***************************************************************************)
\* Fetches the loader may start in one behaviour.
MaxRequests == 3

\* What fetchCsv may resolve to: the records of a dataset that parses.
Datasets == { fetchCsv(response).value : response \in { r \in Responses : fetchCsv(r).ok } }

\* What fetchCsv may reject with: an Error with its message, or another value.
Rejections == { fetchCsv(response).error : response \in { r \in Responses : ~fetchCsv(r).ok } }

\* The key and value pairs the number inputs pass to updateSetting.
SettingUpdates == { << "ftp", 0 >>, << "minCadence", Dec(90, 0) >> }

\* The objects passed to setAll: a saved profile, and an object written by
\* an older version with a total mass and an unreadable FTP.
SetAllValues ==
    { Stringified(RiderWith(Dec(150, 0), << Dec(75, 0), Dec(9, 0), Dec(3, 0) >>, defaultGearing)),
      [ massKg |-> Some(Dec(80, 0)), ftp |-> Null ] }

\* What localStorage may hold when the page opens.
StoredAtStart == { Null, Some([ massKg |-> Some(Dec(80, 0)), minCadence |-> Some(Dec(90, 0)) ]) }

Init ==
    /\ call = [ op |-> "none" ]
    /\ ret = "pending"
    /\ pc = "idle"
    /\ \E raw \in StoredAtStart : createStores(raw)
    /\ createSideStores

\* The run of the derived store's callback that a set of the settings
\* store causes.
settingsRun == [ loadState |-> loadStateStore, climbs |-> Len(slopesStore), by |-> "settings" ]

\* Mutant: the derived store is not told of the new settings.
MutUpdateSettingStaleDerived(key, value) ==
    /\ settingsStore' = [ settingsStore EXCEPT ![key] = value ]
    /\ storage' = Some(Stringified(settingsStore'))
    /\ UNCHANGED << computedSlopes, engineLog >>
    /\ objects' = [ objects EXCEPT !.previousIntact = TRUE, !.sharedWith = { },
                                   !.call = << "updateSetting", key, value >> ]
    /\ UNCHANGED << slopesStore, loadStateStore, errorStore, hasLoaded,
                    currentRequest, pendingRequests, requestCount >>
    /\ UNCHANGED << engineVars, sideVars >>

\* Mutant: the new object is built from the defaults, not from the object
\* published before.
MutUpdateSettingFromDefaults(key, value) ==
    /\ settingsStore' = [ defaultSettings EXCEPT ![key] = value ]
    /\ storage' = Some(Stringified(settingsStore'))
    /\ computedSlopes' = deriveComputedSlopes(slopesStore, settingsStore')
    /\ engineLog' = settingsRun
    /\ objects' = [ objects EXCEPT !.previousIntact = TRUE, !.sharedWith = { },
                                   !.call = << "updateSetting", key, value >> ]
    /\ UNCHANGED << slopesStore, loadStateStore, errorStore, hasLoaded,
                    currentRequest, pendingRequests, requestCount >>
    /\ UNCHANGED << engineVars, sideVars >>

\* store.update of the settings store with its two subscribers: the
\* persistence callback and the derived store computedSlopes.
updateSetting(key, value) ==
    /\ settingsStore' = [ settingsStore EXCEPT ![key] = value ]
    /\ storage' = Some(Stringified(settingsStore'))
    /\ computedSlopes' = deriveComputedSlopes(slopesStore, settingsStore')
    /\ engineLog' = settingsRun
    /\ objects' = [ objects EXCEPT !.previousIntact = TRUE, !.sharedWith = { },
                                   !.call = << "updateSetting", key, value >> ]
    /\ UNCHANGED << slopesStore, loadStateStore, errorStore, hasLoaded,
                    currentRequest, pendingRequests, requestCount >>
    /\ UNCHANGED << engineVars, sideVars >>

reset ==
    /\ settingsStore' = cloneSettings(defaultSettings)
    /\ storage' = Some(Stringified(settingsStore'))
    /\ computedSlopes' = deriveComputedSlopes(slopesStore, settingsStore')
    /\ engineLog' = settingsRun
    /\ objects' = [ objects EXCEPT !.previousIntact = TRUE, !.sharedWith = { },
                                   !.call = << "reset" >> ]
    /\ UNCHANGED << slopesStore, loadStateStore, errorStore, hasLoaded,
                    currentRequest, pendingRequests, requestCount >>
    /\ UNCHANGED << engineVars, sideVars >>

setAll(value) ==
    /\ settingsStore' = cloneSettings(normalizeSettings(value))
    /\ storage' = Some(Stringified(settingsStore'))
    /\ computedSlopes' = deriveComputedSlopes(slopesStore, settingsStore')
    /\ engineLog' = settingsRun
    /\ objects' = [ objects EXCEPT !.previousIntact = TRUE, !.argumentIntact = TRUE,
                                   !.sharedWith = { }, !.call = << "setAll", value >> ]
    /\ UNCHANGED << slopesStore, loadStateStore, errorStore, hasLoaded,
                    currentRequest, pendingRequests, requestCount >>
    /\ UNCHANGED << engineVars, sideVars >>

\* Mutant: the error message of the last failure is kept while loading.
MutLoadSlopesKeepsError(force) ==
    IF ~force /\ (hasLoaded \/ currentRequest # 0)
    THEN UNCHANGED vars
    ELSE /\ requestCount < MaxRequests
         /\ loadStateStore' = "loading"
         /\ requestCount' = requestCount + 1
         /\ pendingRequests' = pendingRequests \cup { requestCount + 1 }
         /\ currentRequest' = requestCount + 1
         /\ UNCHANGED << settingsStore, storage, slopesStore, errorStore, hasLoaded,
                         computedSlopes, engineLog, objects >>
         /\ UNCHANGED << engineVars, sideVars >>

\* loadSlopes(force) up to its return: the early returns change nothing,
\* otherwise a fetch is started and becomes the current request.
loadSlopes(force) ==
    IF ~force /\ (hasLoaded \/ currentRequest # 0)
    THEN UNCHANGED vars
    ELSE /\ requestCount < MaxRequests
         /\ loadStateStore' = "loading"
         /\ errorStore' = Null
         /\ requestCount' = requestCount + 1
         /\ pendingRequests' = pendingRequests \cup { requestCount + 1 }
         /\ currentRequest' = requestCount + 1
         /\ UNCHANGED << settingsStore, storage, slopesStore, hasLoaded,
                         computedSlopes, engineLog, objects >>
         /\ UNCHANGED << engineVars, sideVars >>

\* Mutant: the then handler leaves the error message as it is.
MutFulfilledKeepsError(request, records) ==
    /\ request \in pendingRequests
    /\ slopesStore' = records
    /\ computedSlopes' = deriveComputedSlopes(records, settingsStore)
    /\ engineLog' = [ loadState |-> loadStateStore, climbs |-> Len(records), by |-> "then" ]
    /\ loadStateStore' = "ready"
    /\ hasLoaded' = TRUE
    /\ currentRequest' = 0
    /\ pendingRequests' = pendingRequests \ { request }
    /\ UNCHANGED << settingsStore, storage, requestCount, objects, errorStore >>
    /\ UNCHANGED << engineVars, sideVars >>

\* The then and finally handlers of a request whose fetch and parse
\* succeeded: slopesStore is set, and the derived store recomputed, before
\* the load state is.
fetchCsvFulfilled(request, records) ==
    /\ request \in pendingRequests
    /\ slopesStore' = records
    /\ computedSlopes' = deriveComputedSlopes(records, settingsStore)
    /\ engineLog' = [ loadState |-> loadStateStore, climbs |-> Len(records), by |-> "then" ]
    /\ loadStateStore' = "ready"
    /\ errorStore' = Null
    /\ hasLoaded' = TRUE
    /\ currentRequest' = 0
    /\ pendingRequests' = pendingRequests \ { request }
    /\ UNCHANGED << settingsStore, storage, requestCount, objects >>
    /\ UNCHANGED << engineVars, sideVars >>

\* error instanceof Error ? error.message : 'Unknown error'
messageOf(error) == IF error.isError THEN error.message ELSE "Unknown error"

\* Mutant: the catalogue of an earlier load is kept when a fetch fails.
MutRejectedKeepsCatalogue(request, error) ==
    /\ request \in pendingRequests
    /\ loadStateStore' = "error"
    /\ errorStore' = Some(messageOf(error))
    /\ hasLoaded' = FALSE
    /\ currentRequest' = 0
    /\ pendingRequests' = pendingRequests \ { request }
    /\ UNCHANGED << slopesStore, computedSlopes, engineLog >>
    /\ UNCHANGED << settingsStore, storage, requestCount, objects >>
    /\ UNCHANGED << engineVars, sideVars >>

\* Mutant: a request that failed has no finally handler and stays current.
MutRejectedStaysCurrent(request, error) ==
    /\ request \in pendingRequests
    /\ loadStateStore' = "error"
    /\ errorStore' = Some(messageOf(error))
    /\ slopesStore' = << >>
    /\ computedSlopes' = deriveComputedSlopes(<< >>, settingsStore)
    /\ engineLog' = [ loadState |-> "error", climbs |-> 0, by |-> "catch" ]
    /\ hasLoaded' = FALSE
    /\ pendingRequests' = pendingRequests \ { request }
    /\ UNCHANGED << settingsStore, storage, requestCount, objects, currentRequest >>
    /\ UNCHANGED << engineVars, sideVars >>

\* The catch and finally handlers of a request whose fetch or parse failed:
\* the load state is set before slopesStore is emptied.
fetchCsvRejected(request, error) ==
    /\ request \in pendingRequests
    /\ loadStateStore' = "error"
    /\ errorStore' = Some(messageOf(error))
    /\ slopesStore' = << >>
    /\ computedSlopes' = deriveComputedSlopes(<< >>, settingsStore)
    /\ engineLog' = [ loadState |-> "error", climbs |-> 0, by |-> "catch" ]
    /\ hasLoaded' = FALSE
    /\ currentRequest' = 0
    /\ pendingRequests' = pendingRequests \ { request }
    /\ UNCHANGED << settingsStore, storage, requestCount, objects >>
    /\ UNCHANGED << engineVars, sideVars >>

Next ==
    \/ \E update \in SettingUpdates : updateSetting(update[1], update[2])
    \/ reset
    \/ \E value \in SetAllValues : setAll(value)
    \/ \E force \in BOOLEAN : loadSlopes(force)
    \/ \E request \in 1..MaxRequests, records \in Datasets : fetchCsvFulfilled(request, records)
    \/ \E request \in 1..MaxRequests, error \in Rejections : fetchCsvRejected(request, error)

Spec == Init /\ [][Next]_vars

\* Every fetch settles: the handlers of a pending request run in the end.
fetchCsvSettles ==
    \/ \E request \in 1..MaxRequests, records \in Datasets : fetchCsvFulfilled(request, records)
    \/ \E request \in 1..MaxRequests, error \in Rejections : fetchCsvRejected(request, error)

\* The loader alone, the settings left as they were when the page opened.
LoaderNext ==
    \/ \E force \in BOOLEAN : loadSlopes(force)
    \/ fetchCsvSettles

FairSpec == Init /\ [][LoaderNext]_vars /\ WF_vars(fetchCsvSettles)

(***************************************************************************)
(* The gradient range filter alone: the methods of the store returned by   *)
(* createRangeStore({ min: 0, max: 20 }, DEFAULT_GRADIENT_LIMITS).         *)
(***************************************************************************)
\* Whole numbers passed to the range store run from -2 to this.
MaxRangeInput == 27

RangeInputs ==
    { Null, Some(Dec(12, 50000)) } \cup { Some(Dec(n, 0)) : n \in -2..MaxRangeInput }

\* The bounds passed together to set.
RangeSetInputs ==
    { Null, Some(-Dec(2, 0)), Some(Dec(5, 0)), Some(Dec(12, 50000)), Some(Dec(22, 0)),
      Some(Dec(MaxRangeInput, 0)) }

FilterInit ==
    /\ call = [ op |-> "none" ]
    /\ ret = "pending"
    /\ pc = "idle"
    /\ createStores(Null)
    /\ createSideStores

gradientRangeSet(range) ==
    /\ gradientRange' = normalizeRange(range, GradientInitial, Some(DEFAULT_GRADIENT_LIMITS))
    /\ rangeCall' = [ op |-> "set", min |-> range.min, max |-> range.max ]
    /\ UNCHANGED << engineVars, appVars, profileVars >>

gradientRangeSetMin(min) ==
    /\ gradientRange' = normalizeRange(RangeOf(min, Some(gradientRange.max)),
                                       GradientInitial, Some(DEFAULT_GRADIENT_LIMITS))
    /\ rangeCall' = [ op |-> "setMin", min |-> min, max |-> Null ]
    /\ UNCHANGED << engineVars, appVars, profileVars >>

gradientRangeSetMax(max) ==
    /\ gradientRange' = normalizeRange(RangeOf(Some(gradientRange.min), max),
                                       GradientInitial, Some(DEFAULT_GRADIENT_LIMITS))
    /\ rangeCall' = [ op |-> "setMax", min |-> Null, max |-> max ]
    /\ UNCHANGED << engineVars, appVars, profileVars >>

gradientRangeReset ==
    /\ gradientRange' = normalizeRange(RangeOf(Some(GradientInitial.min), Some(GradientInitial.max)),
                                       GradientInitial, Some(DEFAULT_GRADIENT_LIMITS))
    /\ rangeCall' = [ op |-> "reset", min |-> Null, max |-> Null ]
    /\ UNCHANGED << engineVars, appVars, profileVars >>

FilterNext ==
    \/ \E min \in RangeSetInputs, max \in RangeSetInputs : gradientRangeSet(RangeOf(min, max))
    \/ \E min \in RangeInputs : gradientRangeSetMin(min)
    \/ \E max \in RangeInputs : gradientRangeSetMax(max)
    \/ gradientRangeReset

FilterSpec == FilterInit /\ [][FilterNext]_vars

(***************************************************************************)
(* The saved-profiles store alone, from an empty list: saveProfile and     *)
(* deleteProfile with the persistence callback, and the clock.             *)
(***************************************************************************)
\* The clock runs from 0 to this.
MaxClock == 2
\* Ids generateId may return in one behaviour.
MaxIds == 3

\* "Race", " rACE ", "TT", "tt ", "" and " ".
ProfileNames ==
    { << "R", "a", "c", "e" >>, << " ", "r", "A", "C", "E", " " >>,
      << "T", "T" >>, << "t", "t", " " >>, << >>, << " " >> }

\* The settings objects passed to saveProfile.
ProfileSettings ==
    { Stringified(defaultSettings),
      Stringified(RiderWith(Dec(150, 0), << Dec(75, 0), Dec(9, 0), Dec(3, 0) >>, defaultGearing)) }

ProfilesInit ==
    /\ call = [ op |-> "none" ]
    /\ ret = "pending"
    /\ pc = "idle"
    /\ createStores(Null)
    /\ createSideStores

\* Date.now() moves on.
Tick ==
    /\ clock < MaxClock
    /\ clock' = clock + 1
    /\ UNCHANGED << savedProfiles, profilesStorage, idsIssued, outcome >>
    /\ UNCHANGED << engineVars, appVars, filterVars >>

saveProfile(name, currentSettings) ==
    LET trimmed == trim(name)
        existingIndex == findIndexByName(savedProfiles, trimmed)
        profile == [ id |-> IF existingIndex > 0 THEN savedProfiles[existingIndex].id
                            ELSE idsIssued + 1,
                     name |-> trimmed,
                     settings |-> cloneSettings(normalizeSettings(currentSettings)),
                     updatedAt |-> clock ]
        next == IF existingIndex > 0 THEN [ savedProfiles EXCEPT ![existingIndex] = profile ]
                ELSE Append(savedProfiles, profile)
    IN  IF trimmed = << >>
        THEN /\ outcome' = [ op |-> "saveProfile", argument |-> Some(name), thrown |-> TRUE,
                             returned |-> Null ]
             /\ UNCHANGED << savedProfiles, profilesStorage, clock, idsIssued >>
             /\ UNCHANGED << engineVars, appVars, filterVars >>
        ELSE /\ existingIndex = 0 => idsIssued < MaxIds
             /\ savedProfiles' = sortByUpdatedAt(next)
             /\ profilesStorage' = savedProfiles'
             /\ idsIssued' = IF existingIndex > 0 THEN idsIssued ELSE idsIssued + 1
             /\ outcome' = [ op |-> "saveProfile", argument |-> Some(name), thrown |-> FALSE,
                             returned |-> Some(profile) ]
             /\ UNCHANGED clock
             /\ UNCHANGED << engineVars, appVars, filterVars >>

deleteProfile(id) ==
    LET removed == { i \in 1..Len(savedProfiles) : savedProfiles[i].id = id }
    IN  /\ savedProfiles' = withoutId(savedProfiles, id)
        /\ profilesStorage' = savedProfiles'
        /\ outcome' = [ op |-> "deleteProfile", argument |-> Some(id), thrown |-> FALSE,
                        returned |-> IF removed = { } THEN Null
                                     ELSE Some(savedProfiles[CHOOSE i \in removed :
                                                                \A j \in removed : j <= i]) ]
        /\ UNCHANGED << clock, idsIssued >>
        /\ UNCHANGED << engineVars, appVars, filterVars >>

ProfilesNext ==
    \/ Tick
    \/ \E name \in ProfileNames, currentSettings \in ProfileSettings :
           saveProfile(name, currentSettings)
    \/ \E id \in 1..MaxIds : deleteProfile(id)

ProfilesSpec == ProfilesInit /\ [][ProfilesNext]_vars

(***************************************************************************)
(* Properties of the derivation engine.                                    *)
(***************************************************************************)

\* C1: for every climb and rider, the suitability label of the enrichSlope
\* result is classifyDifficulty of the larger of its ftpRatio and its
\* sustainedFtpRatio.
C1_SuitabilityFromMax ==
    Returned("enrichSlope") =>
        ret.suitability
            = classifyDifficulty(Max(ret.metrics.ftpRatio, ret.metrics.sustainedFtpRatio))

\* A result whose label is not the label of the average ratio.
C1_Witness ==
    /\ Returned("enrichSlope")
    /\ ret.metrics.sustainedFtpRatio > ret.metrics.ftpRatio
    /\ ret.suitability # classifyDifficulty(ret.metrics.ftpRatio)

\* C2: classifyDifficulty maps every ratio to exactly one label, with
\* inclusive upper edges: Friendly up to 0.85, Challenging above 0.85 up to
\* 1.05, Brutal above 1.05.
C2_ClassifierBands ==
    Returned("classifyDifficulty") =>
        /\ ret \in { "Friendly", "Challenging", "Brutal" }
        /\ (ret = "Friendly") <=> (call.ratio <= Dec(0, 85000))
        /\ (ret = "Challenging") <=> (Dec(0, 85000) < call.ratio /\ call.ratio <= Dec(1, 5000))
        /\ (ret = "Brutal") <=> (call.ratio > Dec(1, 5000))

\* The ratio 1.05 itself, labelled Challenging.
C2_Witness ==
    Returned("classifyDifficulty") /\ call.ratio = Dec(1, 5000) /\ ret = "Challenging"

\* C3: burstWarning is present exactly when peakFtpRatio is strictly above
\* 1.2, and then it is peakFtpRatio; at 1.2 or below it is null, whatever
\* the suitability label.
C3_BurstWarning ==
    Returned("enrichSlope") =>
        /\ (ret.burstWarning # Null) <=> (ret.metrics.peakFtpRatio > Dec(1, 20000))
        /\ ret.burstWarning # Null => ret.burstWarning = Some(ret.metrics.peakFtpRatio)
        /\ ret.metrics.peakFtpRatio <= Dec(1, 20000) => ret.burstWarning = Null

\* A climb labelled Friendly that carries a burst warning.
C3_Witness ==
    /\ Returned("enrichSlope")
    /\ ret.suitability = "Friendly"
    /\ ret.burstWarning = Some(ret.metrics.peakFtpRatio)

\* cadence * ratio * circumference / 60 from the clamped fields, the cadence
\* clamped to at least the given floor.
ClampedSpeed(rider, cadenceFloor) ==
    FxDiv(FxMul(FxMul(Max(rider.minCadence, cadenceFloor),
                      FxDiv(Max(rider.frontChainringTeeth, Dec(1, 0)),
                            Max(rider.rearSprocketTeeth, Dec(1, 0)))),
                FxDiv(Max(rider.wheelCircumferenceMm, Dec(1, 0)), Dec(1000, 0))),
          Dec(60, 0))

\* C4: computeMinSpeed returns at least 0.7 m/s, never 0, also for zero or
\* negative teeth, circumference and cadence; a clamped speed above 0.7 is
\* returned unchanged.
C4_MinSpeedFloor ==
    Returned("computeMinSpeed") =>
        /\ ret >= Dec(0, 70000)
        /\ ret # 0
        /\ ClampedSpeed(call.rider, Dec(30, 0)) > Dec(0, 70000)
              => ret = ClampedSpeed(call.rider, Dec(30, 0))

\* A rider with a non-positive field whose speed is above the floor.
C4_Witness ==
    /\ Returned("computeMinSpeed")
    /\ \/ call.rider.minCadence <= 0
       \/ call.rider.rearSprocketTeeth <= 0
    /\ ret > Dec(0, 70000)

\* C5 as stated: a rider with minCadence <= 0 gets exactly 0.7 m/s.
C5_Original ==
    Returned("computeMinSpeed") /\ call.rider.minCadence <= 0 => ret = Dec(0, 70000)

\* C5, amended: when the clamped speed (cadence floored at 30 rpm) is at most
\* 0.7 the result is exactly 0.7; a rider with minCadence <= 0 gets the
\* result of the same rider at 30 rpm, which is at least 0.7 and never 0.
C5_SpeedFloorExact ==
    Returned("computeMinSpeed") =>
        /\ ClampedSpeed(call.rider, Dec(30, 0)) <= Dec(0, 70000) => ret = Dec(0, 70000)
        /\ call.rider.minCadence <= 0 =>
              /\ ret = Max(ClampedSpeed([ call.rider EXCEPT !.minCadence = Dec(30, 0) ], Dec(30, 0)),
                           Dec(0, 70000))
              /\ ret >= Dec(0, 70000)
              /\ ret # 0

\* A rider with minCadence <= 0 and gearing so low that the floor applies.
C5_Witness ==
    /\ Returned("computeMinSpeed")
    /\ call.rider.minCadence <= 0
    /\ call.rider.frontChainringTeeth > 0
    /\ ClampedSpeed(call.rider, Dec(30, 0)) < Dec(0, 70000)
    /\ ret = Dec(0, 70000)

\* C6: computePowerRequirement is never negative, for every rider, every
\* grade of either sign and every speed computeMinSpeed produces; so are the
\* average and peak power of an enrichSlope result.
C6_PowerNonNegative ==
    /\ Returned("computePowerRequirement") => ret >= 0
    /\ Returned("enrichSlope") =>
          ret.metrics.averagePowerWatts >= 0 /\ ret.metrics.peakPowerWatts >= 0

\* A steep descent at a speed computeMinSpeed produced.
C6_Witness ==
    /\ Returned("computePowerRequirement")
    /\ call.grade <= -Percent(10)
    /\ call.speed \in Speeds
    /\ ret > 0

\* C7: for a fixed speed and rider the power does not decrease as the grade
\* rises from 0.
C7_PowerMonotone ==
    Returned("computePowerRequirement") /\ call.grade >= 0 =>
        \A g2 \in Grades :
            g2 >= call.grade => computePowerRequirement(g2, call.speed, call.rider) >= ret

\* A grade above 0 with a steeper grade that needs strictly more power.
C7_Witness ==
    /\ Returned("computePowerRequirement")
    /\ call.grade > 0
    /\ \E g2 \in Grades :
          g2 > call.grade /\ computePowerRequirement(g2, call.speed, call.rider) > ret

\* C8: a negative grade needs exactly the power of grade 0 at the same
\* speed for the same rider.
C8_DescentAsFlat ==
    Returned("computePowerRequirement") /\ call.grade < 0 =>
        ret = computePowerRequirement(0, call.speed, call.rider)

\* A descent whose power is the positive rolling and aerodynamic cost.
C8_Witness ==
    /\ Returned("computePowerRequirement")
    /\ call.grade < 0
    /\ ret > 0
    /\ ret < computePowerRequirement(Percent(1), call.speed, call.rider)

\* The mass the claim C9 states: each weight floored at 0, the sum at 40.
StatedMass(rider) ==
    Max(Max(rider.riderWeightKg, 0) + Max(rider.bikeWeightKg, 0) + Max(rider.cargoWeightKg, 0),
        Dec(40, 0))

\* C9: the mass computePowerRequirement uses is the sum of the three weights,
\* each floored at 0, floored at 40 kg: the power is that of a rider who
\* weighs exactly that mass with no bike and no cargo.
C9_MassClamped ==
    Returned("computePowerRequirement") =>
        /\ systemMass(call.rider) = StatedMass(call.rider)
        /\ systemMass(call.rider) >= Dec(40, 0)
        /\ ret = computePowerRequirement(
                    call.grade, call.speed,
                    [ call.rider EXCEPT !.riderWeightKg = StatedMass(call.rider),
                                        !.bikeWeightKg = 0,
                                        !.cargoWeightKg = 0 ])

\* A negative weight beside positive ones, the sum above 40 kg.
C9_Witness ==
    /\ Returned("computePowerRequirement")
    /\ call.rider.cargoWeightKg < 0
    /\ call.rider.riderWeightKg > 0
    /\ systemMass(call.rider) = call.rider.riderWeightKg + call.rider.bikeWeightKg
    /\ systemMass(call.rider) > Dec(40, 0)

\* No threshold of the histogram holds 0.2 km or more.
NoneSustained(gradientDistances) ==
    \A i \in 1..Len(GRADIENT_THRESHOLDS) :
        DistanceAt(gradientDistances, GRADIENT_THRESHOLDS[i]) < Dec(0, 20000)

\* C10: when no threshold holds at least 0.2 km (an empty or all-zero
\* histogram included) computeSustainedDifficultyRatio returns the fallback,
\* and enrichSlope's sustainedFtpRatio equals its ftpRatio.
C10_SustainedFallback ==
    /\ Returned("computeSustainedDifficultyRatio") /\ NoneSustained(call.gradientDistances)
          => ret = call.fallbackRatio
    /\ Returned("enrichSlope") /\ NoneSustained(call.slope.gradientDistances)
          => ret.metrics.sustainedFtpRatio = ret.metrics.ftpRatio

\* A histogram just below the floor at some threshold, the fallback returned.
C10_Witness ==
    /\ Returned("computeSustainedDifficultyRatio")
    /\ NoneSustained(call.gradientDistances)
    /\ \E t \in DOMAIN call.gradientDistances : call.gradientDistances[t] = Dec(0, 19999)
    /\ call.fallbackRatio > 0
    /\ ret = call.fallbackRatio

\* The thresholds of the histogram that hold 0.2 km or more.
Qualifying(gradientDistances) ==
    { t \in ThresholdSet : DistanceAt(gradientDistances, t) >= Dec(0, 20000) }

\* The ratio of one threshold: the power at its gradient over max(ftp, 1).
ThresholdRatio(t, minSpeed, rider, ftp) ==
    FxDiv(computePowerRequirement(Percent(t), minSpeed, rider), Max(ftp, Dec(1, 0)))

\* C11: when some threshold holds at least 0.2 km,
\* computeSustainedDifficultyRatio returns the largest threshold ratio among
\* exactly the qualifying thresholds: the result is the ratio of a qualifying
\* threshold and no qualifying threshold has a larger one, whatever the
\* thresholds below 0.2 km and the fallback are.
C11_SustainedMaximum ==
    Returned("computeSustainedDifficultyRatio") /\ Qualifying(call.gradientDistances) # { }
        => /\ \E t \in Qualifying(call.gradientDistances) :
                 ret = ThresholdRatio(t, call.minSpeed, call.rider, call.ftp)
           /\ \A u \in Qualifying(call.gradientDistances) :
                 ThresholdRatio(u, call.minSpeed, call.rider, call.ftp) <= ret

\* A steeper threshold with some distance below 0.2 km is passed over, a
\* threshold with exactly 0.2 km gives the result, and the fallback differs.
C11_Witness ==
    /\ Returned("computeSustainedDifficultyRatio")
    /\ \E t \in Qualifying(call.gradientDistances) :
          /\ call.gradientDistances[t] = Dec(0, 20000)
          /\ ret = ThresholdRatio(t, call.minSpeed, call.rider, call.ftp)
    /\ \E u \in ThresholdSet \ Qualifying(call.gradientDistances) :
          /\ DistanceAt(call.gradientDistances, u) > 0
          /\ ThresholdRatio(u, call.minSpeed, call.rider, call.ftp) > ret
    /\ ret # call.fallbackRatio

\* C12: for a climb whose average gradient is below a threshold that holds
\* at least 0.2 km, enrichSlope gives a sustainedFtpRatio above the ftpRatio
\* and the suitability is classifyDifficulty of the sustainedFtpRatio.
C12_SustainedDrivesLabel ==
    Returned("enrichSlope")
    /\ (\E t \in Qualifying(call.slope.gradientDistances) : call.slope.avgGradient < Dec(t, 0))
        => /\ ret.metrics.sustainedFtpRatio > ret.metrics.ftpRatio
           /\ ret.suitability = classifyDifficulty(ret.metrics.sustainedFtpRatio)

\* Average gradient 2 with 0.5 km at 13 %: the label differs from the label
\* of the average ratio.
C12_Witness ==
    /\ Returned("enrichSlope")
    /\ call.slope.avgGradient = Dec(2, 0)
    /\ call.slope.gradientDistances = [ t \in { 13 } |-> Dec(0, 50000) ]
    /\ ret.metrics.sustainedFtpRatio > ret.metrics.ftpRatio
    /\ ret.suitability = classifyDifficulty(ret.metrics.sustainedFtpRatio)
    /\ ret.suitability # classifyDifficulty(ret.metrics.ftpRatio)

\* C15: in every enrichSlope result the ftpRatio and the peakFtpRatio are the
\* power at the average and at the maximum gradient, both at the speed of
\* computeMinSpeed, over max(ftp, 1); the divisor is positive and no ratio is
\* negative.
C15_RatiosOverFlooredFtp ==
    Returned("enrichSlope") =>
        LET minSpeed == computeMinSpeed(call.rider)
            ftp == Max(call.rider.ftp, Dec(1, 0))
        IN  /\ ret.metrics.minSpeedMps = minSpeed
            /\ ftp > 0
            /\ ret.metrics.ftpRatio
                 = FxDiv(computePowerRequirement(FxDiv(call.slope.avgGradient, Dec(100, 0)),
                                                 minSpeed, call.rider), ftp)
            /\ ret.metrics.peakFtpRatio
                 = FxDiv(computePowerRequirement(FxDiv(call.slope.maxGradient, Dec(100, 0)),
                                                 minSpeed, call.rider), ftp)
            /\ ret.metrics.ftpRatio >= 0
            /\ ret.metrics.peakFtpRatio >= 0
            /\ ret.metrics.sustainedFtpRatio >= 0

\* A rider with a negative FTP: the ratios are the powers themselves.
C15_Witness ==
    /\ Returned("enrichSlope")
    /\ call.rider.ftp < 0
    /\ ret.metrics.ftpRatio = ret.metrics.averagePowerWatts
    /\ ret.metrics.peakFtpRatio = ret.metrics.peakPowerWatts
    /\ ret.metrics.peakFtpRatio > ret.metrics.ftpRatio
    /\ ret.metrics.ftpRatio > 0

\* The statement of C16 as written: the time is distanceKm * 1000 / minSpeed
\* for every climb.
C16_Original ==
    Returned("enrichSlope") =>
        ret.metrics.climbTimeSeconds
            = FxDiv(call.slope.distanceKm * 1000, computeMinSpeed(call.rider))

\* C16: for every climb and rider, climbTimeSeconds in the enrichSlope result
\* equals max(distanceKm, 0) * 1000 / minSpeed, minSpeed being the value of
\* computeMinSpeed for that rider: a negative distance gives 0 seconds.
C16_ClimbTime ==
    Returned("enrichSlope") =>
        ret.metrics.climbTimeSeconds
            = FxDiv(Max(call.slope.distanceKm, 0) * 1000, computeMinSpeed(call.rider))

\* A climb with a negative distance, its time 0.
C16_Witness ==
    /\ Returned("enrichSlope")
    /\ call.slope.distanceKm < 0
    /\ ret.metrics.climbTimeSeconds = 0

\* The fields of an enrichSlope result.
EnrichedFields ==
    { "name", "location", "distanceKm", "totalAscent", "avgGradient", "maxGradient",
      "gradientDistances", "pathGroupId", "youtubeLink", "detailDifficultyScore",
      "metrics", "suitability", "burstWarning", "difficultyTags" }

\* C14: a call of enrichSlope returns a complete result for every climb and
\* rider, and the step that runs it leaves the climb record with its
\* histogram, the rider settings object, the catalogue store, the settings
\* store, the load state and every other store as they were.
C14_EnrichFrame ==
    [][ pc = "call" /\ call.op = "enrichSlope"
          => /\ pc' = "done"
             /\ DOMAIN ret' = EnrichedFields
             /\ call'.slope = call.slope
             /\ call'.rider = call.rider
             /\ UNCHANGED << slopesStore, settingsStore, loadStateStore >>
             /\ UNCHANGED << storage, errorStore, hasLoaded, currentRequest, pendingRequests,
                             requestCount, computedSlopes, engineLog, objects >> ]_vars

\* A climb whose negative distance and negative histogram entries the engine
\* clamps in its own computation: the record passed in still holds them.
C14_Witness ==
    \/ /\ Returned("enrichSlope")
       /\ call.slope.distanceKm < 0
       /\ ret.distanceKm = call.slope.distanceKm
       /\ ret.metrics.climbTimeSeconds = 0
    \/ /\ Returned("enrichSlope")
       /\ \E t \in DOMAIN call.slope.gradientDistances : call.slope.gradientDistances[t] < 0
       /\ ret.gradientDistances = call.slope.gradientDistances
       /\ call.rider.ftp <= 0

\* C17: computedSlopes has one entry per record of the catalogue, in the
\* catalogue's order; entry i carries every source field of record i
\* unchanged, and its metrics, score, label, warning and tags are those of
\* enrichSlope(record i, current settings).
C17_OnePerRecordInOrder ==
    /\ Len(computedSlopes) = Len(slopesStore)
    /\ \A i \in 1..Len(slopesStore) :
          LET enriched == enrichSlope(slopesStore[i], settingsStore)
          IN  /\ \A field \in DOMAIN slopesStore[i] :
                    computedSlopes[i][field] = slopesStore[i][field]
              /\ computedSlopes[i].metrics = enriched.metrics
              /\ computedSlopes[i].detailDifficultyScore = enriched.detailDifficultyScore
              /\ computedSlopes[i].suitability = enriched.suitability
              /\ computedSlopes[i].burstWarning = enriched.burstWarning
              /\ computedSlopes[i].difficultyTags = enriched.difficultyTags

\* A loaded catalogue of two climbs with different names and metrics, under
\* settings other than the defaults.
C17_Witness ==
    /\ loadStateStore = "ready"
    /\ Len(slopesStore) = 2
    /\ computedSlopes[1].name = "Peak Road"
    /\ computedSlopes[2].name = "Route Twisk"
    /\ computedSlopes[1].metrics # computedSlopes[2].metrics
    /\ settingsStore # defaultSettings

\* The statement of C18 as written: whenever the derived store's callback
\* enriched a climb, the load state it ran under was 'ready'.
C18_Original ==
    engineLog.climbs > 0 => engineLog.loadState = "ready"

\* C18: enrichSlope is never invoked on a climb while the load state is
\* 'idle'; while the load state is 'idle' or 'error' the catalogue is empty,
\* so that a settings update enriches a climb only under 'ready' or under
\* the 'loading' of a forced reload; every other run that enriches a climb
\* under a state other than 'ready' is the run inside the handler of a
\* successful fetch, which sets the catalogue before it sets 'ready'.
C18_EngineAndLoadState ==
    /\ engineLog.climbs > 0 => engineLog.loadState # "idle"
    /\ loadStateStore \in { "idle", "error" } => slopesStore = << >>
    /\ engineLog.climbs > 0 /\ engineLog.by = "settings"
          => engineLog.loadState \in { "ready", "loading" }
    /\ engineLog.climbs > 0 /\ engineLog.loadState # "ready" /\ engineLog.by # "settings"
          => engineLog.by = "then"

\* A settings update enriches the climbs of a loaded catalogue while a forced
\* reload is in flight.
C18_Witness ==
    /\ engineLog.by = "settings"
    /\ engineLog.climbs > 0
    /\ engineLog.loadState = "loading"
    /\ loadStateStore = "loading"
    /\ pendingRequests # { }

\* C19: the value of computedSlopes last given to the subscribers is the map
\* of enrichSlope over the current catalogue with the current settings, and
\* every entry of it was computed at the minimum speed of those one
\* settings.
C19_DerivedIsCurrent ==
    /\ computedSlopes = [ i \in 1..Len(slopesStore) |-> enrichSlope(slopesStore[i], settingsStore) ]
    /\ \A i \in 1..Len(computedSlopes) :
          computedSlopes[i].metrics.minSpeedMps = computeMinSpeed(settingsStore)

\* After a load and a later settings change the list differs from the one
\* the default settings and the settings at start give.
C19_Witness ==
    /\ engineLog.by = "settings"
    /\ Len(slopesStore) = 2
    /\ settingsStore.minCadence = Dec(90, 0)
    /\ settingsStore.ftp = Dec(150, 0)
    /\ computedSlopes # deriveComputedSlopes(slopesStore, defaultSettings)
    /\ computedSlopes[1].metrics.minSpeedMps = computedSlopes[2].metrics.minSpeedMps
    /\ computedSlopes[1].metrics.minSpeedMps # computeMinSpeed(defaultSettings)

\* The steps the load state may take.
LoadStateStep ==
    /\ loadStateStore = "idle" => loadStateStore' \in { "idle", "loading" }
    /\ loadStateStore # "idle" => loadStateStore' # "idle"
    /\ loadStateStore' = "loading" /\ loadStateStore # "loading"
          => /\ requestCount' = requestCount + 1
             /\ pendingRequests' = pendingRequests \cup { requestCount' }
    /\ loadStateStore' = "ready" /\ loadStateStore # "ready"
          => \E request \in pendingRequests, records \in Datasets :
                 fetchCsvFulfilled(request, records)
    /\ loadStateStore' = "error" /\ loadStateStore # "error"
          => \E request \in pendingRequests, error \in Rejections :
                 fetchCsvRejected(request, error)

\* The message that goes with each load state.
LoadStateMessage ==
    /\ loadStateStore = "error"
          => errorStore # Null /\ \E error \in Rejections : errorStore = Some(messageOf(error))
    /\ loadStateStore \in { "loading", "ready" } => errorStore = Null

\* C20: the load state starts 'idle'; it becomes 'loading' only in a step
\* that starts a fetch, 'ready' only in the handler of a fetch that
\* succeeded, 'error' only in the handler of a fetch that failed; from 'idle'
\* it goes only to 'loading' and it never returns to 'idle'.  In 'error' a
\* message is set, in 'loading' and 'ready' the message is null.
C20_LoadStateMachine ==
    /\ loadStateStore = "idle"
    /\ [][LoadStateStep]_vars
    /\ [](LoadStateMessage)

\* A retry after a failed load: loading again, the message cleared.
C20_Witness ==
    /\ engineLog.by = "catch"
    /\ loadStateStore = "loading"
    /\ errorStore = Null
    /\ requestCount = 2


(***************************************************************************)
(* Properties of the loader's error handling.                              *)
(***************************************************************************)
\* The columns whose cells are texts; the cells of the others are numbers.
TextColumns == { "name", "location", "path_group_id", "group_id", "pathgroupid", "youtube_link" }

\* Line i of the rows fails validation: it has not as many cells as the
\* header line, or its record is refused.
RowFails(file, i) ==
    \/ Len(file.rows[i]) # Len(file.headers)
    \/ ~transformRecord(RecordOf(file.headers, file.rows[i]), i + 1).ok

\* The records of a file whose every line passes, one per line in order.
CompleteRecords(file) ==
    [ i \in 1..Len(file.rows) |-> transformRecord(RecordOf(file.headers, file.rows[i]), i + 1).value ]

CompleteCatalogues ==
    { CompleteRecords(file) : file \in { f \in Files : \A i \in 1..Len(f.rows) : ~RowFails(f, i) } }

\* What a message about a row may say after "Row n".
RowComplaints(file, i) ==
    LET fields == { "distance_km", "total_ascent_m", "avg_gradient", "max_gradient" }
                      \cup { GradientKey(GRADIENT_THRESHOLDS[k]) : k \in 1..Len(GRADIENT_THRESHOLDS) }
        numbers == { k \in 1..Len(file.rows[i]) :
                       k > Len(file.headers) \/ file.headers[k] \notin TextColumns }
        texts == { Join(file.rows[i][k]) : k \in { n \in numbers : n > 2 } }
    IN  { " has " \o ToString(Len(file.rows[i])) \o " columns, expected "
              \o ToString(Len(file.headers)) \o ".",
          " is missing a name column.", " is missing a location column." }
        \cup { " is missing a value for " \o field \o "." : field \in fields }
        \cup { " has an invalid number for " \o field \o ": " \o text :
                 field \in fields, text \in texts }

\* The messages that name the first failing row of a file, the header line
\* being row 1.
RowMessages(file) ==
    LET failing == { i \in 1..Len(file.rows) : RowFails(file, i) }
        first == CHOOSE i \in failing : \A j \in failing : i <= j
    IN  { "Row " \o ToString(first + 1) \o complaint : complaint \in RowComplaints(file, first) }

\* The message a load shows when fetch settled with this response and the
\* load failed: that of the fetch, or one naming the failing row.
FailureMessages(response) ==
    IF response.rejected
    THEN { IF response.error.isError THEN response.error.message ELSE "Unknown error" }
    ELSE IF ~response.ok
    THEN { "Failed to fetch slopes dataset (status " \o ToString(response.status) \o ")" }
    ELSE RowMessages(response.text)

FailingResponses ==
    { response \in Responses :
        \/ response.rejected
        \/ ~response.ok
        \/ \E i \in 1..Len(response.text.rows) : RowFails(response.text, i) }

NoEntry(record, t) ==
    GradientKey(t) \notin DOMAIN record \/ record[GradientKey(t)] = << >>

\* Apart from its absent and empty threshold cells the record is sound: the
\* four required numbers are decimal numbers, every threshold cell that is
\* filled is one, and the name and the location are there.
SoundButFor(record) ==
    LET required == { Coalesce(Cell(record, "distance_km"), Cell(record, "distancekm")),
                      Coalesce(Cell(record, "total_ascent_m"),
                               Coalesce(Cell(record, "total_ascent"), Cell(record, "elev_gain_m"))),
                      Coalesce(Cell(record, "avg_gradient"), Cell(record, "avg_gradient_pct")),
                      Coalesce(Cell(record, "max_gradient"), Cell(record, "max_gradient_pct")) }
    IN  /\ \A cell \in required : cell # Null /\ Number(cell[1]) # Null
        /\ \A t \in ThresholdSet : ~NoEntry(record, t) => Number(record[GradientKey(t)]) # Null
        /\ \A key \in { "name", "location" } : key \in DOMAIN record /\ record[key] # ""

\* The histogram with 0 wherever it has no entry or a negative one.
Zeroed(gradientDistances) ==
    [ t \in ThresholdSet |->
        IF t \in DOMAIN gradientDistances /\ gradientDistances[t] >= 0
        THEN gradientDistances[t] ELSE 0 ]

\* C22: a row whose threshold cells are absent or empty, and which is sound
\* otherwise, is loaded without error with distance 0 at those thresholds;
\* computeSustainedDifficultyRatio returns what it returns for the histogram
\* with 0 in place of its absent and negative entries, and a result other than
\* the fallback is the ratio of a threshold whose entry is there and at least
\* 0.2 km.
C22_AbsentThresholdIsZero ==
    /\ Returned("transformRecord") =>
          /\ SoundButFor(call.record) => ret.ok
          /\ ret.ok => \A t \in ThresholdSet :
                          NoEntry(call.record, t) => ret.value.gradientDistances[t] = 0
    /\ Returned("computeSustainedDifficultyRatio") =>
          /\ ret = computeSustainedDifficultyRatio(Zeroed(call.gradientDistances), call.rider,
                       call.minSpeed, call.ftp, call.totalDistanceKm, call.fallbackRatio)
          /\ ret # call.fallbackRatio =>
                \E t \in DOMAIN call.gradientDistances :
                    /\ call.gradientDistances[t] >= Dec(0, 20000)
                    /\ ret = ThresholdRatio(t, call.minSpeed, call.rider, call.ftp)

\* A row of the older layout, with no threshold column at all, is loaded with
\* an all-zero histogram.
C22_Witness ==
    /\ Returned("transformRecord")
    /\ \A t \in ThresholdSet : GradientKey(t) \notin DOMAIN call.record
    /\ ret.ok
    /\ \A t \in ThresholdSet : ret.value.gradientDistances[t] = 0

\* A histogram with negative entries below a threshold of 0.2 km: the
\* negative entries are passed over and that threshold gives the result.
C22_WitnessAnalyzer ==
    /\ Returned("computeSustainedDifficultyRatio")
    /\ \E t \in DOMAIN call.gradientDistances : call.gradientDistances[t] < 0
    /\ ret # call.fallbackRatio


C24_NonForcedStartsNoSecondFetch ==
    [][ loadSlopes(FALSE) =>
          /\ pendingRequests # { } => UNCHANGED << requestCount, pendingRequests, currentRequest >>
          /\ loadStateStore = "ready" => UNCHANGED << loadStateStore, errorStore, slopesStore >> ]_vars

\* C25: the handlers of a request that was started before the newest one, run
\* when the newest one has already settled, leave the load state, the error
\* message and the catalogue as the newest request's handlers left them.
C25_StaleResponseLeavesResult ==
    [][ \A request \in pendingRequests :
            /\ request < requestCount
            /\ requestCount \notin pendingRequests
            /\ pendingRequests' = pendingRequests \ { request }
            => UNCHANGED << loadStateStore, errorStore, slopesStore >> ]_vars


\* C26: in every state between handlers, load state 'error' goes with an
\* empty catalogue and a message, 'ready' with no message, and 'loading' with
\* a fetch in flight and no message.
C26_LoadStateInvariant ==
    /\ loadStateStore = "error" => slopesStore = << >> /\ errorStore # Null
    /\ loadStateStore = "ready" => errorStore = Null
    /\ loadStateStore = "loading" => pendingRequests # { } /\ errorStore = Null

\* A forced reload is in flight when the earlier fetch fails: 'error' with
\* its message over an empty catalogue, the reload still pending.
C26_Witness ==
    /\ loadStateStore = "error"
    /\ errorStore = Some("Failed to fetch slopes dataset (status 404)")
    /\ slopesStore = << >>
    /\ pendingRequests = { 2 }


\* C27: when every fetch settles, load state 'loading' leads to 'ready' or
\* 'error' and a current request leads to none; and in load state 'error' no
\* load has succeeded, no request is current, and a call of loadSlopes
\* without force starts a fetch.
C27_LoadingEnds ==
    /\ loadStateStore = "loading" ~> loadStateStore \in { "ready", "error" }
    /\ currentRequest # 0 ~> currentRequest = 0
    /\ [](loadStateStore = "error" =>
            /\ ~hasLoaded
            /\ currentRequest = 0
            /\ requestCount < MaxRequests =>
                  ENABLED (loadSlopes(FALSE) /\ requestCount' = requestCount + 1))

\* Two fetches were started and both have settled, the one that settled last
\* with a dataset: 'ready' with no request current.
C27_Witness ==
    /\ engineLog.by = "then"
    /\ loadStateStore = "ready"
    /\ requestCount = 2
    /\ pendingRequests = { }
    /\ currentRequest = 0
    /\ slopesStore # << >>


(***************************************************************************)
(* Monotonicity of the suitability in the histogram.                       *)
(***************************************************************************)
\* Distances an entry of the histogram is raised to.
RaisedDistances == { Dec(0, 10000), Dec(0, 20000), Dec(0, 50000), Dec(2, 0) }

\* Friendly < Challenging < Brutal
Severity(label) == CASE label = "Friendly" -> 1 [] label = "Challenging" -> 2 [] label = "Brutal" -> 3

\* The histogram with the entry of threshold t raised to d, all else as it
\* was.
Raised(gradientDistances, t, d) ==
    [ u \in DOMAIN gradientDistances \cup { t } |-> IF u = t THEN d ELSE gradientDistances[u] ]

\* The sustainedFtpRatio and the suitability enrichSlope gives the climb of
\* the call with that histogram: the rider, and so the minimum speed and the
\* ftpRatio, are those of the call.
SustainedAfter(t, d) ==
    computeSustainedDifficultyRatio(Raised(call.slope.gradientDistances, t, d), call.rider,
        ret.metrics.minSpeedMps, ftpOf(call.rider), call.slope.distanceKm, ret.metrics.ftpRatio)

SuitabilityAfter(t, d) == suitabilityOf(ret.metrics.ftpRatio, SustainedAfter(t, d))

\* C28: for the same rider, raising one entry of the climb's histogram never
\* lowers the larger of ftpRatio and sustainedFtpRatio, and never makes the
\* suitability less severe.
C28_SuitabilityMonotone ==
    Returned("enrichSlope") =>
        \A t \in ThresholdSet, d \in RaisedDistances :
            d > DistanceAt(call.slope.gradientDistances, t) =>
                /\ Max(ret.metrics.ftpRatio, SustainedAfter(t, d))
                      >= Max(ret.metrics.ftpRatio, ret.metrics.sustainedFtpRatio)
                /\ Severity(SuitabilityAfter(t, d)) >= Severity(ret.suitability)

\* A climb of 9.5% on average with no sustained threshold: raising the entry
\* of 3% to 0.2 km brings the sustained ratio down from the fallback to the
\* ratio of 3%, and the label stays what it was.
C28_Witness ==
    /\ Returned("enrichSlope")
    /\ NoneSustained(call.slope.gradientDistances)
    /\ ret.suitability = "Brutal"
    /\ SustainedAfter(3, Dec(0, 20000)) < ret.metrics.sustainedFtpRatio
    /\ SustainedAfter(3, Dec(0, 20000)) <= Dec(0, 85000)
    /\ SuitabilityAfter(3, Dec(0, 20000)) = "Brutal"


(***************************************************************************)
(* Properties of the gradient range filter.                                *)
(***************************************************************************)
\* A finite number brought within the limits 0..25.
WithinLimits(value) ==
    IF value < 0 THEN 0 ELSE IF value > Dec(25, 0) THEN Dec(25, 0) ELSE value

\* C29: the stored range always satisfies 0 <= min <= max <= 25; a call that
\* passes a non-finite lower bound stores the initial lower bound 0 and one
\* that passes a non-finite upper bound stores the initial upper bound 20; a
\* call whose lower bound, brought within the limits, exceeds the upper bound
\* it leaves or passes stores min = max.
C29_RangeOrdered ==
    /\ [](/\ 0 <= gradientRange.min
          /\ gradientRange.min <= gradientRange.max
          /\ gradientRange.max <= Dec(25, 0))
    /\ [][ /\ rangeCall'.op \in { "set", "setMin" } /\ rangeCall'.min = Null
                => gradientRange'.min = 0
           /\ rangeCall'.op \in { "set", "setMax" } /\ rangeCall'.max = Null
                => gradientRange'.max = Dec(20, 0)
           /\ rangeCall'.op = "setMin" /\ rangeCall'.min # Null
                => IF WithinLimits(rangeCall'.min[1]) > gradientRange.max
                   THEN gradientRange' = RangeOf(gradientRange.max, gradientRange.max)
                   ELSE gradientRange' = RangeOf(WithinLimits(rangeCall'.min[1]), gradientRange.max)
           /\ rangeCall'.op = "setMax" /\ rangeCall'.max # Null
                => IF WithinLimits(rangeCall'.max[1]) < gradientRange.min
                   THEN gradientRange'.min = gradientRange'.max
                   ELSE gradientRange' = RangeOf(gradientRange.min, WithinLimits(rangeCall'.max[1]))
           /\ rangeCall'.op = "set" /\ rangeCall'.min # Null /\ rangeCall'.max # Null
                /\ WithinLimits(rangeCall'.min[1]) > WithinLimits(rangeCall'.max[1])
                => gradientRange'.min = gradientRange'.max ]_vars

\* setMin(22) on the range 0..20: the lower bound is stored as 20.
C29_Witness ==
    /\ rangeCall = [ op |-> "setMin", min |-> Some(Dec(22, 0)), max |-> Null ]
    /\ gradientRange = RangeOf(Dec(20, 0), Dec(20, 0))

\* setMax(NaN) with the lower bound at 20: the upper bound is the initial 20.
C29_WitnessNonFinite ==
    /\ rangeCall = [ op |-> "setMax", min |-> Null, max |-> Null ]
    /\ gradientRange = RangeOf(Dec(20, 0), Dec(20, 0))


(***************************************************************************)
(* Properties of the saved-profiles store.                                 *)
(***************************************************************************)
\* The name is empty or all blanks.
Blank(name) == \A i \in 1..Len(name) : name[i] = " "

\* The name without the blanks around it.
Bare(name) ==
    LET filled == { i \in 1..Len(name) : name[i] # " " }
        first == CHOOSE i \in filled : \A j \in filled : i <= j
        last == CHOOSE i \in filled : \A j \in filled : j <= i
    IN  IF filled = { } THEN << >> ELSE SubSeq(name, first, last)

\* Two names are equal ignoring case.
SameName(a, b) == Len(a) = Len(b) /\ toLowerCase(a) = toLowerCase(b)

\* No two saved profiles have names equal ignoring case or the same id.
ProfilesDistinct ==
    \A i, j \in 1..Len(savedProfiles) :
        i # j => /\ ~SameName(savedProfiles[i].name, savedProfiles[j].name)
                 /\ savedProfiles[i].id # savedProfiles[j].id

\* The list without its element i.
Without(profiles, i) == SubSeq(profiles, 1, i - 1) \o SubSeq(profiles, i + 1, Len(profiles))

\* A call of saveProfile with a blank name throws and leaves the list.
BlankNameStep ==
    outcome'.op = "saveProfile" /\ Blank(outcome'.argument[1])
        => outcome'.thrown /\ savedProfiles' = savedProfiles

\* A call of deleteProfile(id) removes the profile with that id alone and
\* returns it, or returns null and leaves the list.
DeleteStep ==
    outcome'.op = "deleteProfile" =>
        LET found == { i \in 1..Len(savedProfiles) : savedProfiles[i].id = outcome'.argument[1] }
        IN  IF found = { }
            THEN outcome'.returned = Null /\ savedProfiles' = savedProfiles
            ELSE \E i \in found :
                     /\ outcome'.returned = Some(savedProfiles[i])
                     /\ savedProfiles' = Without(savedProfiles, i)

\* A call of saveProfile under the name of profile i, ignoring case, puts the
\* profile it returns at position i with the id of profile i and leaves every
\* other position as it was.
ReplaceInPlaceStep ==
    outcome'.op = "saveProfile" /\ ~Blank(outcome'.argument[1]) =>
        \A i \in 1..Len(savedProfiles) :
            SameName(savedProfiles[i].name, Bare(outcome'.argument[1])) =>
                /\ ~outcome'.thrown
                /\ outcome'.returned[1].id = savedProfiles[i].id
                /\ savedProfiles' = [ savedProfiles EXCEPT ![i] = outcome'.returned[1] ]

\* A call of saveProfile under the name of profile i, ignoring case, puts the
\* profile it returns, with the id of profile i, in the list in place of
\* profile i; the other profiles are kept in their order, and the list is
\* ordered newest first, profiles of one time in the order they had.
ReplaceAndSortStep ==
    outcome'.op = "saveProfile" /\ ~Blank(outcome'.argument[1]) =>
        \A i \in 1..Len(savedProfiles) :
            SameName(savedProfiles[i].name, Bare(outcome'.argument[1])) =>
                /\ ~outcome'.thrown
                /\ outcome'.returned[1].id = savedProfiles[i].id
                /\ outcome'.returned[1].name = Bare(outcome'.argument[1])
                /\ Len(savedProfiles') = Len(savedProfiles)
                /\ \E k \in 1..Len(savedProfiles') :
                       /\ savedProfiles'[k] = outcome'.returned[1]
                       /\ Without(savedProfiles', k) = Without(savedProfiles, i)
                       /\ \A j \in 1..Len(savedProfiles') :
                              /\ j < k => savedProfiles'[j].updatedAt >= savedProfiles'[k].updatedAt
                              /\ j > k => savedProfiles'[j].updatedAt < savedProfiles'[k].updatedAt
                                             \/ (j > i /\ savedProfiles'[j].updatedAt
                                                             = savedProfiles'[k].updatedAt)

\* C30 as stated: the profiles are distinct by name ignoring case and by id;
\* saving under the name of an existing profile replaces it at its position
\* and keeps its id; a blank name throws and leaves the list; deleteProfile
\* removes the profile with the id alone and returns it, or returns null and
\* leaves the list.
C30_Original ==
    /\ [](ProfilesDistinct)
    /\ [][clock' = clock => BlankNameStep /\ DeleteStep /\ ReplaceInPlaceStep]_vars

\* C30: as above, except that the profile saved under the name of an
\* existing one takes its id and its place in the list, not its position: the
\* list is then ordered newest first, the other profiles keeping their order.
C30_SavedProfiles ==
    /\ [](ProfilesDistinct)
    /\ [][clock' = clock => BlankNameStep /\ DeleteStep /\ ReplaceAndSortStep]_vars

\* "Race" was saved, then "TT", then " rACE " at a later time: the profile
\* keeps id 1, is named "rACE" and has moved in front of "TT".
C30_Witness ==
    /\ outcome.op = "saveProfile"
    /\ outcome.argument = Some(<< " ", "r", "A", "C", "E", " " >>)
    /\ Len(savedProfiles) = 2
    /\ savedProfiles[1].id = 1
    /\ savedProfiles[1].name = << "r", "A", "C", "E" >>
    /\ savedProfiles[1].updatedAt > savedProfiles[2].updatedAt
    /\ savedProfiles[2].id = 2

====
